---- MODULE Spec2Model ----
(***************************************************************************)
(* State-machine model of the signal / dedup / notification pipeline of    *)
(* rss-mailer: rss_digest.py (RSS digest mailer with cooldown buckets),    *)
(* radar.py (percentage radar with the Telegram dedup store),              *)
(* merge_and_send.py and scripts/ma20_scan_kr.py (two-channel dispatch).   *)
(*                                                                         *)
(* Time is counted in units of 900 seconds, so that the cooldowns of       *)
(* rss_digest.py (1800 s, 900 s, 0 s) are 2, 1 and 0.  The 4000-entry cap  *)
(* of the per-category seen list is scaled to SEEN_KEEP entries.           *)
(***************************************************************************)
EXTENDS Integers, Sequences, FiniteSets, TLC

VARIABLES
    \* ---- rss_digest.py
    rssFile,      \* content of .state_test/state.json
    rssPc,        \* position of main()
    rssState,     \* the in-memory dict `state` of main()
    newItems,     \* us_all / korea_all / dart_all / crypto_all, by category
    sendFlags,    \* send_holdings, send_us, ... by bucket
    spikesAny,    \* bool(alerts_kospi or alerts_kosdaq or spikes_kospi or spikes_kosdaq)
    now,          \* now_epoch(), in units of 900 s
    feeds,        \* the entries the feeds serve in the current run (input);
                  \* kept after a run that ran to its end, else cleared
    sameInput,    \* this run has the input of the previous run, which ran to its end
    runs,         \* number of runs started
    delivered,    \* per bucket, the time recorded by mark_sent when an email
                  \* of this run delivered its items (0: not delivered)
    prevDelivered,\* `delivered` of the previous run, when it ran to its end
    prevNew,      \* ids the previous run returned as new, when it ran to its end
    universe,     \* the entries the feeds can serve, by category (fixed)
    \* ---- radar.py, dedup_and_send() run by two workers on one state.json
    radarFile,    \* content of state.json
    radarPc,      \* position of each worker in dedup_and_send()
    radarIn,      \* the arguments market, interval and hits of each worker
    radarState,   \* the dict `state` of each worker: the keys of state["sent"]
    radarNew,     \* new_hits of each worker
    radarSent,    \* the hits of the message each worker's tg_send delivered
    \* ---- radar.py, sig_key() applied to two hits
    keyIn,        \* the two hits, with the market and interval of their scans
    keyOut,       \* their keys
    \* ---- merge_and_send.py and scripts/ma20_scan_kr.py, main()
    notifyEnv,    \* the script, its environment and the behaviour of the channels
    notifyPc,     \* position of main()
    notifyLog,    \* what the run did: attempts, deliveries, escaped exception
    \* ---- eod_ma20_close.py, kis_ma20_close_kr.py, scan_close_kr.py: the scan loop
    scanEnv,      \* the script and what fetching and classifying each symbol gives
    scanPc,       \* position of main()
    scanLog,      \* symbols scanned, hits collected, digest dispatched, exception
    \* ---- radar.py, main(): the three markets
    mainEnv,      \* per market: has the scan new hits, does tg_send deliver
    mainPc,       \* position of main(): the market block to run next
    mainLog,      \* markets scanned, sent and saved, escaped exception
    \* ---- rss_digest.py, cooldown_ok() applied to one state
    shouldIn,     \* bucket, cooldown, the bucket's entry of last_sent, the clock
    shouldOut,    \* the value returned, in a tuple; empty before the call
    \* ---- radar.py, tg_send()
    tgEnv,        \* are token and chat id set; the number of parts of the text
    tgPc,         \* position of tg_send()
    tgPart,       \* index of the part being sent
    tgAttempt,    \* the counter `attempt` of the part being sent
    tgTrace,      \* for the part being sent: each response and the sleep after it
    \* ---- radar.py scan_pct() and scripts/ma20_scan_kr.py load_or_fetch_history()
    fetchProg,    \* which of the two runs
    fetchPc,      \* position in the loops
    fetchI,       \* index of the batch (radar) or of the trading day (KRX)
    fetchM,       \* index of the market of the day (KRX); 1 for radar
    fetchAttempt, \* the loop variable `attempt`
    fetchFrames,  \* `frames` of fetch_bulk_ohlcv_for_date: markets of the day with data
    fetchLog,     \* per batch or (day, market): attempts made, data obtained;
                  \* and the batches or days whose data the run has taken in
    \* ---- the MA20 rules of eod_ma20_close.py, kis_ma20_close_kr.py and
    \*      scripts/ma20_scan_kr.py applied to one symbol
    maIn,         \* the script and the closes of the symbol, oldest first
    maOut,        \* the rules' values, in a tuple; empty before the call
    \* ---- scan_close_kr.py, compute_signals() and passes_filters() for one symbol
    closeIn,      \* the last values of the indicator series, and the arguments
    closeOut,     \* the dict `sig` and the value of passes_filters, in a tuple
    \* ---- the near rule of the three MA20 scripts at its threshold
    nearIn,       \* the script, its near_pct, the close and the mean
    nearOut,      \* the value of `near`, in a tuple
    \* ---- the sections of the digest of one MA20 script, for one symbol
    digestIn,     \* the script and the closes of the symbol, oldest first
    digestOut,    \* is the symbol in the breakout section, in the near section
    \* ---- the volume rule of kis_ma20_close_kr.py, kis_ma20_close_kr_all_fast.py
    \*      and rss_digest.py for one symbol
    volIn,        \* the script, the volume, the base of the ratio, the multiplier
    volOut,       \* does the rule accept the symbol, did the division raise
    \* ---- scan_close_kr.py rsi() for one symbol
    rsiIn,        \* the closes, oldest first
    rsiOut,       \* the last value of rsi(close), a quotient, in a tuple
    \* ---- radar.py dedup_and_send() and rss_digest.py main(): what one run
    \*      records and what it shows
    showIn,       \* the script, the events found, those recorded before, TOP_N
    showPc,       \* position in the run
    showOut,      \* the fingerprints in memory, on disk, and the events shown
    \* ---- radar.py _split_message() for one text
    splitIn,      \* the text, a sequence of characters, and max_len
    splitOut,     \* the list of chunks returned, in a tuple
    \* ---- merge_and_send.py prioritize_and_trim() for one set of results
    trimIn,       \* the rows of df, in their order, and TOPN
    trimOut       \* the rows returned, in a tuple

rssVars == <<rssFile, rssPc, rssState, newItems, sendFlags, spikesAny, now,
             feeds, sameInput, runs, delivered, prevDelivered, prevNew,
             universe>>
radarVars == <<radarFile, radarPc, radarIn, radarState, radarNew, radarSent>>
keyVars == <<keyIn, keyOut>>
notifyVars == <<notifyEnv, notifyPc, notifyLog>>
scanVars == <<scanEnv, scanPc, scanLog>>
mainVars == <<mainEnv, mainPc, mainLog>>
shouldVars == <<shouldIn, shouldOut>>
tgVars == <<tgEnv, tgPc, tgPart, tgAttempt, tgTrace>>
fetchVars == <<fetchProg, fetchPc, fetchI, fetchM, fetchAttempt, fetchFrames, fetchLog>>
maVars == <<maIn, maOut>>
closeVars == <<closeIn, closeOut>>
nearVars == <<nearIn, nearOut>>
digestVars == <<digestIn, digestOut>>
volVars == <<volIn, volOut>>
rsiVars == <<rsiIn, rsiOut>>
showVars == <<showIn, showPc, showOut>>
splitVars == <<splitIn, splitOut>>
trimVars == <<trimIn, trimOut>>

nonRssVars ==
    <<radarVars, keyVars, notifyVars, scanVars, mainVars, shouldVars,
        tgVars, fetchVars, maVars, closeVars, nearVars, digestVars,
        volVars, rsiVars, showVars, splitVars, trimVars>>
nonRadarVars ==
    <<rssVars, keyVars, notifyVars, scanVars, mainVars, shouldVars,
        tgVars, fetchVars, maVars, closeVars, nearVars, digestVars,
        volVars, rsiVars, showVars, splitVars, trimVars>>
nonKeyVars ==
    <<rssVars, radarVars, notifyVars, scanVars, mainVars, shouldVars,
        tgVars, fetchVars, maVars, closeVars, nearVars, digestVars,
        volVars, rsiVars, showVars, splitVars, trimVars>>
nonNotifyVars ==
    <<rssVars, radarVars, keyVars, scanVars, mainVars, shouldVars,
        tgVars, fetchVars, maVars, closeVars, nearVars, digestVars,
        volVars, rsiVars, showVars, splitVars, trimVars>>
nonScanVars ==
    <<rssVars, radarVars, keyVars, notifyVars, mainVars, shouldVars,
        tgVars, fetchVars, maVars, closeVars, nearVars, digestVars,
        volVars, rsiVars, showVars, splitVars, trimVars>>
nonMainVars ==
    <<rssVars, radarVars, keyVars, notifyVars, scanVars, shouldVars,
        tgVars, fetchVars, maVars, closeVars, nearVars, digestVars,
        volVars, rsiVars, showVars, splitVars, trimVars>>
nonShouldVars ==
    <<rssVars, radarVars, keyVars, notifyVars, scanVars, mainVars,
        tgVars, fetchVars, maVars, closeVars, nearVars, digestVars,
        volVars, rsiVars, showVars, splitVars, trimVars>>
nonTgVars ==
    <<rssVars, radarVars, keyVars, notifyVars, scanVars, mainVars,
        shouldVars, fetchVars, maVars, closeVars, nearVars, digestVars,
        volVars, rsiVars, showVars, splitVars, trimVars>>
nonFetchVars ==
    <<rssVars, radarVars, keyVars, notifyVars, scanVars, mainVars,
        shouldVars, tgVars, maVars, closeVars, nearVars, digestVars,
        volVars, rsiVars, showVars, splitVars, trimVars>>
nonMaVars ==
    <<rssVars, radarVars, keyVars, notifyVars, scanVars, mainVars,
        shouldVars, tgVars, fetchVars, closeVars, nearVars, digestVars,
        volVars, rsiVars, showVars, splitVars, trimVars>>
nonCloseVars ==
    <<rssVars, radarVars, keyVars, notifyVars, scanVars, mainVars,
        shouldVars, tgVars, fetchVars, maVars, nearVars, digestVars,
        volVars, rsiVars, showVars, splitVars, trimVars>>
nonNearVars ==
    <<rssVars, radarVars, keyVars, notifyVars, scanVars, mainVars,
        shouldVars, tgVars, fetchVars, maVars, closeVars, digestVars,
        volVars, rsiVars, showVars, splitVars, trimVars>>
nonDigestVars ==
    <<rssVars, radarVars, keyVars, notifyVars, scanVars, mainVars,
        shouldVars, tgVars, fetchVars, maVars, closeVars, nearVars,
        volVars, rsiVars, showVars, splitVars, trimVars>>
nonVolVars ==
    <<rssVars, radarVars, keyVars, notifyVars, scanVars, mainVars,
        shouldVars, tgVars, fetchVars, maVars, closeVars, nearVars,
        digestVars, rsiVars, showVars, splitVars, trimVars>>
nonRsiVars ==
    <<rssVars, radarVars, keyVars, notifyVars, scanVars, mainVars,
        shouldVars, tgVars, fetchVars, maVars, closeVars, nearVars,
        digestVars, volVars, showVars, splitVars, trimVars>>
nonShowVars ==
    <<rssVars, radarVars, keyVars, notifyVars, scanVars, mainVars,
        shouldVars, tgVars, fetchVars, maVars, closeVars, nearVars,
        digestVars, volVars, rsiVars, splitVars, trimVars>>
nonSplitVars ==
    <<rssVars, radarVars, keyVars, notifyVars, scanVars, mainVars,
        shouldVars, tgVars, fetchVars, maVars, closeVars, nearVars,
        digestVars, volVars, rsiVars, showVars, trimVars>>
nonTrimVars ==
    <<rssVars, radarVars, keyVars, notifyVars, scanVars, mainVars,
        shouldVars, tgVars, fetchVars, maVars, closeVars, nearVars,
        digestVars, volVars, rsiVars, showVars, splitVars>>

vars ==
    <<rssVars, radarVars, keyVars, notifyVars, scanVars, mainVars,
        shouldVars, tgVars, fetchVars, maVars, closeVars, nearVars,
        digestVars, volVars, rsiVars, showVars, splitVars, trimVars>>

-----------------------------------------------------------------------------
\* Bounds of the model
MaxRuns == 2      \* runs of main() in one behaviour
MaxGap == 2       \* largest time between the starts of two runs (units)
MaxSendTime == 1  \* longest duration of one SMTP session (units)
EPOCH0 == 3       \* the clock at the first run, later than every cooldown

\* rss_digest.py constants (cooldowns in units of 900 s)
COOLDOWN_US_SEC == 2
COOLDOWN_KR_SEC == 2
COOLDOWN_CRYPTO_SEC == 1
COOLDOWN_HOLDINGS_SEC == 0
COOLDOWN_DART_SEC == 0
COOLDOWN_SPIKES_SEC == 0
SEEN_KEEP == 2    \* list(seen)[-4000:], scaled

Categories == {"US_MARKET", "KOREA_ECON_POLICY", "DART", "CRYPTO"}
Buckets == {"HOLDINGS", "US", "KR", "CRYPTO", "DART", "SPIKES"}

\* The entries the feeds of a category can serve: (title, link) pairs.  The
\* feeds of KOREA_ECON_POLICY and DART serve no entry in this model; their
\* buckets have the cooldowns of US (1800 s) and SPIKES (0 s).
Item(t, l) == [title |-> t, link |-> l]
FeedUniverse ==
    [c \in Categories |->
        CASE c = "US_MARKET" ->
                 {Item("Fed holds rates", "r/1"), Item("NVIDIA jumps", "c/2"),
                  Item("GDP revised", "b/3")}
          [] c = "KOREA_ECON_POLICY" -> {}
          [] c = "DART" -> {}
          [] c = "CRYPTO" -> {Item("BTC slides", "g/1")}]

\* A value per category, in the order main() fetches them.
ByCategory(us, kr, dart, crypto) ==
    [c \in Categories |->
        CASE c = "US_MARKET" -> us
          [] c = "KOREA_ECON_POLICY" -> kr
          [] c = "DART" -> dart
          [] c = "CRYPTO" -> crypto]

\* Titles of the universe that contain one of HOLDING_KEYWORDS ("NVIDIA").
HoldingTitles == {"NVIDIA jumps"}

-----------------------------------------------------------------------------
\* rss_digest.py: state helpers

\* The dict load_state() returns when the file is missing or unreadable.
DefaultState ==
    [seen_items |-> [c \in Categories |-> {}],
     last_sent |-> [b \in Buckets |-> 0]]

\* File contents: no file, a truncated / partially written file, or a
\* complete JSON document holding `data`.
NoFile == [kind |-> "absent", data |-> DefaultState]
PartialFile == [kind |-> "partial", data |-> DefaultState]
JsonFile(d) == [kind |-> "json", data |-> d]

\* load_state(): a missing file and a file json.loads() rejects both give
\* the default dict (the bare `except Exception`).
rss_load_state(file) ==
    IF file.kind = "json" THEN file.data ELSE DefaultState

\* stable_id(text): SHA-256 of the text, taken as collision free.
stable_id(text) == <<"sha256", text>>

ItemId(category, it) ==
    stable_id(category \o "|" \o it.title \o "|" \o it.link)

\* A cooldown_ok that wants strictly more than the cooldown to have passed.
cooldown_ok_strict(st, bucket, cooldown_sec, t) ==
    IF cooldown_sec <= 0 THEN TRUE
    ELSE (t - st.last_sent[bucket]) > cooldown_sec

\* A cooldown_ok without the shortcut for a cooldown of 0.
cooldown_ok_no_shortcut(st, bucket, cooldown_sec, t) ==
    (t - st.last_sent[bucket]) >= cooldown_sec

\* cooldown_ok(state, bucket, cooldown_sec) at time t.
cooldown_ok(st, bucket, cooldown_sec, t) ==
    IF cooldown_sec <= 0 THEN TRUE
    ELSE (t - st.last_sent[bucket]) >= cooldown_sec

\* A mark_sent that stamps the bucket US along with the bucket it is given.
mark_sent_and_us(st, bucket, t) ==
    [st EXCEPT !.last_sent[bucket] = t, !.last_sent["US"] = t]

\* mark_sent(state, bucket) at time t.
mark_sent(st, bucket, t) ==
    [st EXCEPT !.last_sent[bucket] = t]

\* list(seen)[-4000:]: the lists a set of ids can be cut to.  A Python set
\* iterates in hash order, so which ids are the last SEEN_KEEP is not
\* determined by the order of insertion.
KeptLists(seen) ==
    IF Cardinality(seen) <= SEEN_KEEP THEN {seen}
    ELSE {k \in SUBSET seen : Cardinality(k) = SEEN_KEEP}

\* fetch_rss_new_items(state, category, urls): the new items, given the
\* entries the feeds serve.
NewItemsOf(st, category, entries) ==
    {it \in entries : ItemId(category, it) \notin st.seen_items[category]}

\* The set `seen` at the end of the loop of fetch_rss_new_items.
SeenAfter(st, category, entries) ==
    st.seen_items[category] \cup {ItemId(category, it) : it \in entries}

\* The ids of the items of a run's new_items lists.
NewIds(ni) == UNION {{ItemId(c, it) : it \in ni[c]} : c \in Categories}

\* filter_holdings_news(items)
filter_holdings_news(items) == {it \in items : it.title \in HoldingTitles}

\* The cooldown of each bucket, as main() passes it to cooldown_ok.
CooldownOf(b) ==
    CASE b = "HOLDINGS" -> COOLDOWN_HOLDINGS_SEC
      [] b = "US" -> COOLDOWN_US_SEC
      [] b = "KR" -> COOLDOWN_KR_SEC
      [] b = "CRYPTO" -> COOLDOWN_CRYPTO_SEC
      [] b = "DART" -> COOLDOWN_DART_SEC
      [] b = "SPIKES" -> COOLDOWN_SPIKES_SEC

\* The items main() tests for each bucket (lines 557-562).
BucketItems(ni, b) ==
    CASE b = "HOLDINGS" ->
             filter_holdings_news(ni["US_MARKET"] \cup ni["KOREA_ECON_POLICY"])
      [] b = "US" -> ni["US_MARKET"]
      [] b = "KR" -> ni["KOREA_ECON_POLICY"]
      [] b = "CRYPTO" -> ni["CRYPTO"]
      [] b = "DART" -> ni["DART"]
      [] b = "SPIKES" -> {}

\* send_holdings, send_us, ... (lines 557-562)
SendFlag(st, ni, spk, b, t) ==
    /\ IF b = "SPIKES" THEN spk ELSE BucketItems(ni, b) # {}
    /\ cooldown_ok(st, b, CooldownOf(b), t)

MarketBuckets == Buckets \ {"HOLDINGS"}

-----------------------------------------------------------------------------
\* rss_digest.py: main()

RssTerminal == {"idle", "done", "raised", "crashed"}

NoFeeds == [c \in Categories |-> {}]
NoneDelivered == [b \in Buckets |-> 0]

\* A state file left by earlier runs: the seen list of US_MARKET is at its
\* cap, with the ids of entries the feeds no longer serve.
AgedState ==
    [DefaultState EXCEPT !.seen_items["US_MARKET"] =
        {ItemId("US_MARKET", Item("Old story " \o ToString(i), "o/" \o ToString(i))) :
            i \in 1..SEEN_KEEP}]

\* The time between the start of the previous run and the start of a run.
Gaps(n) == IF n = 0 THEN {0} ELSE 1..MaxGap

RssInitWith(u, file) ==
    /\ universe = u
    /\ rssFile = file
    /\ rssPc = "idle"
    /\ rssState = DefaultState
    /\ newItems = [c \in Categories |-> {}]
    /\ sendFlags = [b \in Buckets |-> FALSE]
    /\ spikesAny = FALSE
    /\ now = EPOCH0
    /\ feeds = NoFeeds
    /\ sameInput = FALSE
    /\ runs = 0
    /\ delivered = NoneDelivered
    /\ prevDelivered = NoneDelivered
    /\ prevNew = {}

\* Lines 545-571: load_state, detect_price_alerts_and_spikes, the four
\* fetch_rss_new_items calls and the send flags.  fetch_risers raises on an
\* HTTP error, which ends the run before anything is written.
RssBegin ==
    /\ rssPc \in RssTerminal
    /\ runs < MaxRuns
    /\ runs' = runs + 1
    /\ \E gap \in Gaps(runs) : now' = now + gap
    /\ delivered' = NoneDelivered
    /\ prevDelivered' = IF rssPc = "done" THEN delivered ELSE NoneDelivered
    /\ prevNew' = IF rssPc = "done" THEN NewIds(newItems) ELSE {}
    /\ \E fu \in SUBSET universe["US_MARKET"],
          fk \in SUBSET universe["KOREA_ECON_POLICY"],
          fd \in SUBSET universe["DART"],
          fc \in SUBSET universe["CRYPTO"] :
         /\ feeds' = ByCategory(fu, fk, fd, fc)
         /\ sameInput' = (rssPc = "done" /\ feeds' = feeds)
    /\ \E spk \in BOOLEAN :
         LET st0 == rss_load_state(rssFile) IN
              /\ newItems' = [c \in Categories |-> NewItemsOf(st0, c, feeds'[c])]
              /\ \E ku \in KeptLists(SeenAfter(st0, "US_MARKET", feeds'["US_MARKET"])),
                    kk \in KeptLists(SeenAfter(st0, "KOREA_ECON_POLICY",
                                               feeds'["KOREA_ECON_POLICY"])),
                    kd \in KeptLists(SeenAfter(st0, "DART", feeds'["DART"])),
                    kc \in KeptLists(SeenAfter(st0, "CRYPTO", feeds'["CRYPTO"])) :
                   rssState' = [st0 EXCEPT !.seen_items = ByCategory(ku, kk, kd, kc)]
              /\ spikesAny' = spk
              /\ sendFlags' = [b \in Buckets |->
                                 SendFlag(rssState', newItems', spk, b, now')]
              /\ rssPc' = "save1"
    /\ UNCHANGED <<rssFile, universe, nonRssVars>>

\* fetch_risers raises on an HTTP error (line 215): the run ends in
\* detect_price_alerts_and_spikes, before anything is written.
RssBeginRaises ==
    /\ rssPc \in RssTerminal
    /\ runs < MaxRuns
    /\ runs' = runs + 1
    /\ \E gap \in Gaps(runs) : now' = now + gap
    /\ rssState' = rss_load_state(rssFile)
    /\ rssPc' = "raised"
    /\ newItems' = NoFeeds
    /\ sendFlags' = [b \in Buckets |-> FALSE]
    /\ spikesAny' = FALSE
    /\ feeds' = NoFeeds
    /\ sameInput' = FALSE
    /\ delivered' = NoneDelivered
    /\ prevDelivered' = NoneDelivered
    /\ prevNew' = {}
    /\ UNCHANGED <<rssFile, universe, nonRssVars>>

\* save_state(state): write_text opens the file for writing, which
\* truncates it, then writes the document.
RssSaveOpen(at, next) ==
    /\ rssPc = at
    /\ rssFile' = PartialFile
    /\ rssPc' = next
    /\ UNCHANGED <<rssState, newItems, sendFlags, spikesAny, now, feeds,
                   sameInput, runs, delivered, prevDelivered, prevNew, universe, nonRssVars>>

RssSaveWrite(at, next) ==
    /\ rssPc = at
    /\ rssFile' = JsonFile(rssState)
    /\ rssPc' = next
    /\ UNCHANGED <<rssState, newItems, sendFlags, spikesAny, now, feeds,
                   sameInput, runs, delivered, prevDelivered, prevNew, universe, nonRssVars>>

\* Line 573
RssSave1Open == RssSaveOpen("save1", "save1w")
RssSave1Write == RssSaveWrite("save1w", "holdings")

\* Lines 575-578: the holdings email.  send_email raises on an SMTP error.
RssSendHoldings ==
    /\ rssPc = "holdings"
    /\ IF ~sendFlags["HOLDINGS"]
       THEN /\ rssPc' = "market"
            /\ UNCHANGED <<rssState, now, delivered, feeds>>
       ELSE \E ok \in BOOLEAN, d \in 0..MaxSendTime :
            /\ now' = now + d
            /\ IF ok
               THEN /\ rssState' = mark_sent(rssState, "HOLDINGS", now')
                    /\ delivered' = [delivered EXCEPT !["HOLDINGS"] = now']
                    /\ rssPc' = "market"
                    /\ UNCHANGED feeds
               ELSE /\ rssPc' = "raised"
                    /\ feeds' = NoFeeds
                    /\ UNCHANGED <<rssState, delivered>>
    /\ UNCHANGED <<rssFile, newItems, sendFlags, spikesAny, sameInput, runs,
                   prevDelivered, prevNew, universe, nonRssVars>>

\* Lines 580-613: the market email and the mark_sent calls after it.
RssSendMarket ==
    /\ rssPc = "market"
    /\ LET sel == {b \in MarketBuckets : sendFlags[b]} IN
       IF sel = {}
       THEN /\ rssPc' = "save2"
            /\ UNCHANGED <<rssState, now, delivered, feeds>>
       ELSE \E ok \in BOOLEAN, d \in 0..MaxSendTime :
            /\ now' = now + d
            /\ IF ok
               THEN /\ rssState' =
                         [rssState EXCEPT !.last_sent =
                            [b \in Buckets |->
                               IF b \in sel THEN now' ELSE rssState.last_sent[b]]]
                    /\ delivered' =
                         [b \in Buckets |-> IF b \in sel THEN now' ELSE delivered[b]]
                    /\ rssPc' = "save2"
                    /\ UNCHANGED feeds
               ELSE /\ rssPc' = "raised"
                    /\ feeds' = NoFeeds
                    /\ UNCHANGED <<rssState, delivered>>
    /\ UNCHANGED <<rssFile, newItems, sendFlags, spikesAny, sameInput, runs,
                   prevDelivered, prevNew, universe, nonRssVars>>

\* Line 615
RssSave2Open == RssSaveOpen("save2", "save2w")
RssSave2Write == RssSaveWrite("save2w", "done")

\* The process is stopped (killed, runner cancelled) in the middle of a run.
RssCrash ==
    /\ rssPc \notin RssTerminal
    /\ rssPc' = "crashed"
    /\ feeds' = NoFeeds
    /\ UNCHANGED <<rssFile, rssState, newItems, sendFlags, spikesAny, now,
                   sameInput, runs, delivered, prevDelivered, prevNew, universe, nonRssVars>>

-----------------------------------------------------------------------------
\* radar.py: the dedup store and dedup_and_send()

NumWorkers == 2   \* runs of dedup_and_send() on the same state.json
MaxBars == 2      \* distinct timestamps of the last bar

Workers == 1..NumWorkers

INTRADAY_INTERVAL == "5m"
DAILY_INTERVAL == "1d"
Intervals == {INTRADAY_INTERVAL, DAILY_INTERVAL}

\* str(df.index[-1]) of the i-th bar
TsKey(i) == "2024-01-0" \o ToString(i) \o " 09:30:00-05:00"

\* A hit of scan_pct (lines 534-540).
Hit(t, ts, m) ==
    [ticker |-> t, pct |-> m.pct, price |-> m.price, ts_key |-> ts, news |-> m.news]

\* The computed values of a hit.
Metrics ==
    {[pct |-> 3, price |-> 100, news |-> <<>>],
     [pct |-> 4, price |-> 101, news |-> <<"Shares rally">>]}

\* A key that leaves the interval out.
sig_key_no_interval(market, ticker, interval, ts_key) ==
    market \o "|" \o ticker \o "|" \o ts_key

\* sig_key(market, ticker, interval, ts_key)
sig_key(market, ticker, interval, ts_key) ==
    market \o "|" \o ticker \o "|" \o interval \o "|" \o ts_key

\* The key dedup_and_send computes for a hit (line 583).
HitKey(market, interval, h) == sig_key(market, h.ticker, interval, h.ts_key)

\* state.json of radar.py: `data` is the set of the keys of state["sent"].
RadarNoFile == [kind |-> "absent", data |-> {}]
RadarPartialFile == [kind |-> "partial", data |-> {}]
RadarJsonFile(sent) == [kind |-> "json", data |-> sent]

\* load_state(): {"sent": {}} when the file is missing or json.load raises.
radar_load_state(file) == IF file.kind = "json" THEN file.data ELSE {}

\* The hits the scans of the workers can return.
RadarMarkets == {"US", "KR"}
RadarHits ==
    {Hit("AAPL", TsKey(1), m) : m \in {x \in Metrics : x.pct = 3}}
        \cup {Hit("TSLA", TsKey(1), m) : m \in {x \in Metrics : x.pct = 4}}

RadarNoInput == [market |-> "", interval |-> "", hits |-> {}]

RadarInit ==
    /\ radarFile = RadarNoFile
    /\ radarPc = [w \in Workers |-> "idle"]
    /\ radarIn = [w \in Workers |-> RadarNoInput]
    /\ radarState = [w \in Workers |-> {}]
    /\ radarNew = [w \in Workers |-> {}]
    /\ radarSent = [w \in Workers |-> {}]

\* The workers do not run.
RadarOff ==
    /\ radarFile = RadarNoFile
    /\ radarPc = [w \in Workers |-> "off"]
    /\ radarIn = [w \in Workers |-> RadarNoInput]
    /\ radarState = [w \in Workers |-> {}]
    /\ radarNew = [w \in Workers |-> {}]
    /\ radarSent = [w \in Workers |-> {}]

\* Lines 578-587: load_state and the loop that fills new_hits and sent.
RadarLoad(w) ==
    /\ radarPc[w] = "idle"
    /\ \E market \in RadarMarkets, interval \in Intervals, hits \in SUBSET RadarHits :
         LET sent == radar_load_state(radarFile)
             new_hits == {h \in hits : HitKey(market, interval, h) \notin sent}
         IN /\ radarIn' = [radarIn EXCEPT ![w] =
                  [market |-> market, interval |-> interval, hits |-> hits]]
            /\ radarNew' = [radarNew EXCEPT ![w] = new_hits]
            /\ radarState' = [radarState EXCEPT ![w] =
                  sent \cup {HitKey(market, interval, h) : h \in new_hits}]
    /\ radarPc' = [radarPc EXCEPT ![w] = "send"]
    /\ UNCHANGED <<radarFile, radarSent, nonRadarVars>>

\* Lines 589-591: format_msg and tg_send, which raises when the message
\* is not delivered.
RadarSend(w) ==
    /\ radarPc[w] = "send"
    /\ IF radarNew[w] = {}
       THEN /\ radarPc' = [radarPc EXCEPT ![w] = "save"]
            /\ UNCHANGED radarSent
       ELSE \E ok \in BOOLEAN :
            IF ok
            THEN /\ radarSent' = [radarSent EXCEPT ![w] = radarNew[w]]
                 /\ radarPc' = [radarPc EXCEPT ![w] = "save"]
            ELSE /\ radarPc' = [radarPc EXCEPT ![w] = "raised"]
                 /\ UNCHANGED radarSent
    /\ UNCHANGED <<radarFile, radarIn, radarState, radarNew, nonRadarVars>>

\* Line 593, save_state(state): open(STATE_FILE, "w") truncates the file,
\* then json.dump writes the document.
RadarSaveOpen(w) ==
    /\ radarPc[w] = "save"
    /\ radarFile' = RadarPartialFile
    /\ radarPc' = [radarPc EXCEPT ![w] = "savew"]
    /\ UNCHANGED <<radarIn, radarState, radarNew, radarSent, nonRadarVars>>

RadarSaveWrite(w) ==
    /\ radarPc[w] = "savew"
    /\ radarFile' = RadarJsonFile(radarState[w])
    /\ radarPc' = [radarPc EXCEPT ![w] = "done"]
    /\ UNCHANGED <<radarIn, radarState, radarNew, radarSent, nonRadarVars>>

\* The process of a worker is stopped in the middle of dedup_and_send.
RadarCrash(w) ==
    /\ radarPc[w] \in {"send", "save", "savew"}
    /\ radarPc' = [radarPc EXCEPT ![w] = "crashed"]
    /\ UNCHANGED <<radarFile, radarIn, radarState, radarNew, radarSent, nonRadarVars>>

-----------------------------------------------------------------------------
\* radar.py: sig_key() on two hits

KeyMarkets == {"US", "JP", "KR"}
\* Tickers as load_tickers returns them: the first token of a line.
KeyTickers == {"A", "A|5m", "7203.T"}

KeyEvents ==
    {[market |-> mk, interval |-> iv, hit |-> Hit(t, TsKey(i), m)] :
        mk \in KeyMarkets, iv \in Intervals, t \in KeyTickers,
        i \in 1..MaxBars, m \in Metrics}

NoKeys == <<"", "">>

KeyInit ==
    /\ keyIn \in KeyEvents \X KeyEvents
    /\ keyOut = NoKeys

KeyOff ==
    /\ keyIn = <<>>
    /\ keyOut = NoKeys

\* Line 583 for the two hits.
KeyApply ==
    /\ keyIn # <<>>
    /\ keyOut = NoKeys
    /\ keyOut' = <<HitKey(keyIn[1].market, keyIn[1].interval, keyIn[1].hit),
                   HitKey(keyIn[2].market, keyIn[2].interval, keyIn[2].hit)>>
    /\ UNCHANGED <<keyIn, nonKeyVars>>

-----------------------------------------------------------------------------
\* merge_and_send.py and scripts/ma20_scan_kr.py: main(), email then Telegram

MaxParts == 2     \* 3900-character chunks of the Telegram text

Scripts == {"merge_and_send", "ma20_scan_kr"}

\* The environment of a run: which credentials are set, and how the SMTP
\* server and the Telegram API behave for the whole run.
NotifyEnvs ==
    [prog : Scripts,
     mailEnv : BOOLEAN,      \* GMAIL_USER .. HANMAIL_TO / SMTP_USER .. MAIL_TO set
     tgEnv : BOOLEAN,        \* TELEGRAM_BOT_TOKEN and TELEGRAM_CHAT_ID set
     smtp : {"ok", "error"},
     telegram : {"ok", "http_error", "network_error"},
     parts : 1..MaxParts]

NoLog ==
    [mailAttempted |-> FALSE, mailDelivered |-> FALSE,
     tgPosts |-> 0, tgDelivered |-> 0, escaped |-> FALSE]

NotifyInit ==
    /\ notifyEnv \in NotifyEnvs
    /\ notifyPc = "start"
    /\ notifyLog = NoLog

NotifyOff ==
    /\ notifyEnv = [prog |-> "", mailEnv |-> FALSE, tgEnv |-> FALSE,
                    smtp |-> "ok", telegram |-> "ok", parts |-> 1]
    /\ notifyPc = "off"
    /\ notifyLog = NoLog

\* merge_and_send.py line 158, must_env(): raises when a mail variable is
\* missing.  Lines 160-174 build the workbook and the text.
MergeMustEnv ==
    /\ notifyEnv.prog = "merge_and_send"
    /\ notifyPc = "start"
    /\ IF notifyEnv.mailEnv
       THEN /\ notifyPc' = "mail"
            /\ UNCHANGED notifyLog
       ELSE /\ notifyPc' = "raised"
            /\ notifyLog' = [notifyLog EXCEPT !.escaped = TRUE]
    /\ UNCHANGED <<notifyEnv, nonNotifyVars>>

\* merge_and_send.py line 176, send_mail(): an SMTP error propagates.
MergeSendMail ==
    /\ notifyEnv.prog = "merge_and_send"
    /\ notifyPc = "mail"
    /\ IF notifyEnv.smtp = "ok"
       THEN /\ notifyLog' = [notifyLog EXCEPT !.mailAttempted = TRUE,
                                               !.mailDelivered = TRUE]
            /\ notifyPc' = "tg"
       ELSE /\ notifyLog' = [notifyLog EXCEPT !.mailAttempted = TRUE,
                                               !.escaped = TRUE]
            /\ notifyPc' = "raised"
    /\ UNCHANGED <<notifyEnv, nonNotifyVars>>

\* merge_and_send.py line 177, tg_send(): skipped without token or chat id;
\* else one requests.post per chunk.  The response is not looked at; an
\* exception of requests.post propagates.
MergeTgSend ==
    /\ notifyEnv.prog = "merge_and_send"
    /\ notifyPc = "tg"
    /\ IF ~notifyEnv.tgEnv \/ notifyLog.tgPosts = notifyEnv.parts
       THEN /\ notifyPc' = "done"
            /\ UNCHANGED notifyLog
       ELSE CASE notifyEnv.telegram = "ok" ->
                   /\ notifyLog' = [notifyLog EXCEPT !.tgPosts = @ + 1,
                                                      !.tgDelivered = @ + 1]
                   /\ UNCHANGED notifyPc
              [] notifyEnv.telegram = "http_error" ->
                   /\ notifyLog' = [notifyLog EXCEPT !.tgPosts = @ + 1]
                   /\ UNCHANGED notifyPc
              [] notifyEnv.telegram = "network_error" ->
                   /\ notifyLog' = [notifyLog EXCEPT !.tgPosts = @ + 1,
                                                      !.escaped = TRUE]
                   /\ notifyPc' = "raised"
    /\ UNCHANGED <<notifyEnv, nonNotifyVars>>

\* ma20_scan_kr.py line 188, notify.send_email(): skipped when a mail
\* variable is missing; an SMTP error propagates.
Ma20SendEmail ==
    /\ notifyEnv.prog = "ma20_scan_kr"
    /\ notifyPc = "start"
    /\ IF ~notifyEnv.mailEnv
       THEN /\ notifyPc' = "tg"
            /\ UNCHANGED notifyLog
       ELSE IF notifyEnv.smtp = "ok"
            THEN /\ notifyLog' = [notifyLog EXCEPT !.mailAttempted = TRUE,
                                                    !.mailDelivered = TRUE]
                 /\ notifyPc' = "tg"
            ELSE /\ notifyLog' = [notifyLog EXCEPT !.mailAttempted = TRUE,
                                                    !.escaped = TRUE]
                 /\ notifyPc' = "raised"
    /\ UNCHANGED <<notifyEnv, nonNotifyVars>>

\* ma20_scan_kr.py line 189, notify.send_telegram(): skipped without token
\* or chat id; one requests.post, then raise_for_status().
Ma20SendTelegram ==
    /\ notifyEnv.prog = "ma20_scan_kr"
    /\ notifyPc = "tg"
    /\ IF ~notifyEnv.tgEnv
       THEN /\ notifyPc' = "done"
            /\ UNCHANGED notifyLog
       ELSE IF notifyEnv.telegram = "ok"
            THEN /\ notifyLog' = [notifyLog EXCEPT !.tgPosts = @ + 1,
                                                    !.tgDelivered = @ + 1]
                 /\ notifyPc' = "done"
            ELSE /\ notifyLog' = [notifyLog EXCEPT !.tgPosts = @ + 1,
                                                    !.escaped = TRUE]
                 /\ notifyPc' = "raised"
    /\ UNCHANGED <<notifyEnv, nonNotifyVars>>

-----------------------------------------------------------------------------
\* eod_ma20_close.py, kis_ma20_close_kr.py, scan_close_kr.py: main(), the loop
\* over the universe and the dispatch of the digest

NumSymbols == 2   \* symbols of the universe

Symbols == 1..NumSymbols

ScanScripts == {"eod_ma20_close", "kis_ma20_close_kr", "scan_close_kr"}

\* What fetching and classifying one symbol gives: a series on which a rule
\* fires, a series on which none fires, a series too short for the script,
\* no series, an exception of the fetch (HTTP error, timeout), an exception
\* while the series is classified (a column of the wrong type, a bad date).
ScanOutcomes ==
    {"signal", "no_signal", "short", "missing", "fetch_error", "classify_error"}

ScanEnvs == [prog : ScanScripts, outcome : [Symbols -> ScanOutcomes]]

NoScanLog == [next |-> 1, scanned |-> {}, hits |-> {}, dispatched |-> FALSE,
              escaped |-> FALSE]

ScanInit ==
    /\ scanEnv \in ScanEnvs
    /\ scanPc = "loop"
    /\ scanLog = NoScanLog

ScanOff ==
    /\ scanEnv = [prog |-> "", outcome |-> [y \in Symbols |-> "missing"]]
    /\ scanPc = "off"
    /\ scanLog = NoScanLog

\* The log after the body of the loop ran to its end for the next symbol.
ScanAdvance(hit) ==
    [scanLog EXCEPT !.next = @ + 1,
                    !.scanned = @ \cup {scanLog.next},
                    !.hits = IF hit THEN @ \cup {scanLog.next} ELSE @]

\* eod_ma20_close.py lines 141-153 with scan() (70-99): every exception of
\* fetch_eod and of the rules is caught in scan(), which returns None.
EodScanStep ==
    /\ scanEnv.prog = "eod_ma20_close"
    /\ scanPc = "loop"
    /\ scanLog.next \in Symbols
    /\ scanLog' = ScanAdvance(scanEnv.outcome[scanLog.next] = "signal")
    /\ UNCHANGED <<scanEnv, scanPc, nonScanVars>>

\* eod_ma20_close.py lines 155-156: send_mail(results).
EodSendMail ==
    /\ scanEnv.prog = "eod_ma20_close"
    /\ scanPc = "loop"
    /\ scanLog.next \notin Symbols
    /\ scanLog' = [scanLog EXCEPT !.dispatched = TRUE]
    /\ scanPc' = "done"
    /\ UNCHANGED <<scanEnv, nonScanVars>>

\* kis_ma20_close_kr.py lines 320-353: the body of the loop is inside
\* try / except Exception: pass.
KisScanStep ==
    /\ scanEnv.prog = "kis_ma20_close_kr"
    /\ scanPc = "loop"
    /\ scanLog.next \in Symbols
    /\ scanLog' = ScanAdvance(scanEnv.outcome[scanLog.next] = "signal")
    /\ UNCHANGED <<scanEnv, scanPc, nonScanVars>>

\* kis_ma20_close_kr.py after the loop (lines 355 on): sort, cut and mail.
KisSendMail ==
    /\ scanEnv.prog = "kis_ma20_close_kr"
    /\ scanPc = "loop"
    /\ scanLog.next \notin Symbols
    /\ scanLog' = [scanLog EXCEPT !.dispatched = TRUE]
    /\ scanPc' = "done"
    /\ UNCHANGED <<scanEnv, nonScanVars>>

\* scan_close_kr.py lines 261-298: fetch_ohlcv_yf, compute_signals and
\* passes_filters are called with no try / except; an empty frame and an
\* empty dict `continue`.
CloseScanStep ==
    /\ scanEnv.prog = "scan_close_kr"
    /\ scanPc = "loop"
    /\ scanLog.next \in Symbols
    /\ IF scanEnv.outcome[scanLog.next] \in {"fetch_error", "classify_error"}
       THEN /\ scanLog' = [scanLog EXCEPT !.escaped = TRUE]
            /\ scanPc' = "raised"
       ELSE /\ scanLog' = ScanAdvance(scanEnv.outcome[scanLog.next] = "signal")
            /\ UNCHANGED scanPc
    /\ UNCHANGED <<scanEnv, nonScanVars>>

\* scan_close_kr.py lines 303-349: the text and JSON digests are written.
CloseWriteOut ==
    /\ scanEnv.prog = "scan_close_kr"
    /\ scanPc = "loop"
    /\ scanLog.next \notin Symbols
    /\ scanLog' = [scanLog EXCEPT !.dispatched = TRUE]
    /\ scanPc' = "done"
    /\ UNCHANGED <<scanEnv, nonScanVars>>

-----------------------------------------------------------------------------
\* radar.py: main(), the US, JP and KR blocks, each with a chat id and a
\* non-empty ticker file

MarketOrder == <<"US", "JP", "KR">>
MainMarkets == {MarketOrder[i] : i \in 1..Len(MarketOrder)}

\* Per market: whether dedup_and_send finds a hit that is not in the store,
\* and whether tg_send delivers or raises after its retries.
MainEnvs == [hasNew : [MainMarkets -> BOOLEAN],
             tg : [MainMarkets -> {"ok", "raise"}]]

NoMainLog == [scanned |-> {}, sent |-> {}, saved |-> {}, escaped |-> FALSE]

MainInit ==
    /\ mainEnv \in MainEnvs
    /\ mainPc = 1
    /\ mainLog = NoMainLog

MainOff ==
    /\ mainEnv = [hasNew |-> [m \in MainMarkets |-> FALSE],
                  tg |-> [m \in MainMarkets |-> "ok"]]
    /\ mainPc = 0
    /\ mainLog = NoMainLog

\* One block of main(): market_status, scan_pct, then dedup_and_send, which
\* calls tg_send when there are new hits and save_state after it.  An
\* exception of tg_send is caught neither in dedup_and_send nor in main().
MainBlock(i) ==
    LET m == MarketOrder[i] IN
    /\ mainPc = i
    /\ IF mainEnv.hasNew[m] /\ mainEnv.tg[m] = "raise"
       THEN /\ mainLog' = [mainLog EXCEPT !.scanned = @ \cup {m},
                                          !.escaped = TRUE]
            /\ mainPc' = Len(MarketOrder) + 2
       ELSE /\ mainLog' = [mainLog EXCEPT
                             !.scanned = @ \cup {m},
                             !.sent = IF mainEnv.hasNew[m] THEN @ \cup {m} ELSE @,
                             !.saved = @ \cup {m}]
            /\ mainPc' = i + 1
    /\ UNCHANGED <<mainEnv, nonMainVars>>

MainUS == MainBlock(1)
MainJP == MainBlock(2)
MainKR == MainBlock(3)

\* main() has returned, or an exception has left it.
MainEnded == mainPc > Len(MarketOrder)

-----------------------------------------------------------------------------
\* rss_digest.py: cooldown_ok() on its own

MaxCooldownArg == 2   \* largest cooldown_sec passed to cooldown_ok (units)
MaxClockSpan == 3     \* number of clock values

\* now_epoch() is later than every cooldown counted from the epoch.
ShouldClocks == (MaxCooldownArg + 1)..(MaxCooldownArg + MaxClockSpan)

\* last_sent[bucket] as stored: absent, or a time, which may be later than
\* the clock of this run (a clock that was set back).
ShouldInputs ==
    [bucket : Buckets,
     cooldown_sec : 0..MaxCooldownArg,
     present : BOOLEAN,
     last : 0..(MaxCooldownArg + MaxClockSpan + 1),
     t : ShouldClocks]

\* The state dict with the bucket's entry of last_sent; an absent entry is
\* read as 0 by .get(bucket, 0).
ShouldState(in) ==
    [DefaultState EXCEPT
        !.last_sent[in.bucket] = IF in.present THEN in.last ELSE 0]

NoShould == [bucket |-> "US", cooldown_sec |-> 0, present |-> FALSE,
             last |-> 0, t |-> 0]

ShouldInit ==
    /\ shouldIn \in {in \in ShouldInputs : in.present \/ in.last = 0}
    /\ shouldOut = <<>>

ShouldOff ==
    /\ shouldIn = NoShould
    /\ shouldOut = <<>>

ShouldApply ==
    /\ shouldOut = <<>>
    /\ shouldIn # NoShould
    /\ shouldOut' = <<cooldown_ok(ShouldState(shouldIn), shouldIn.bucket,
                                  shouldIn.cooldown_sec, shouldIn.t)>>
    /\ UNCHANGED <<shouldIn, nonShouldVars>>

-----------------------------------------------------------------------------
\* radar.py: tg_send().  Sleeps are in tenths of a second.

MaxTgParts == 2            \* parts _split_message cuts a text into

TG_RETRY_429 == 6          \* retries after a 429
TG_RETRY_BASE_SLEEP == 15  \* 1.5 s
TG_SLEEP_CAP == 600        \* min(sleep_s, 60.0)
\* A give-up bound above that of the 429 responses.
TG_NET_RETRY_MORE == TG_RETRY_429 + 1

TG_NET_RETRY == 2          \* `attempt <= 2` of the except branch
TG_NET_SLEEP == 8          \* 0.8 * attempt

\* parameters.retry_after of a 429 response: absent (0), 5 s, 120 s.
RetryAfters == {0, 50, 1200}

\* What one requests.post gives: a 2xx response, a 429 response with its
\* retry_after, another 4xx / 5xx response, or a RequestException of the
\* connection.
TgResponses ==
    {[kind |-> "ok", retry_after |-> 0],
     [kind |-> "http_error", retry_after |-> 0],
     [kind |-> "network_error", retry_after |-> 0]}
        \cup {[kind |-> "429", retry_after |-> ra] : ra \in RetryAfters}

TgEnvs == [cred : BOOLEAN, parts : 0..MaxTgParts]

Pow2(n) == IF n <= 0 THEN 1 ELSE 2 ^ n

MinOf(x, y) == IF x <= y THEN x ELSE y

\* A guard that allows one more retry after a 429.
Retry429OneMore(attempt) == attempt <= TG_RETRY_429 + 1

\* Line 163: is a 429 response at this attempt retried.
Retry429(attempt) == attempt <= TG_RETRY_429

\* Lines 171-172: the sleep after a 429.
Sleep429(retry_after, attempt) ==
    MinOf(IF retry_after # 0 THEN retry_after
          ELSE TG_RETRY_BASE_SLEEP * Pow2(attempt - 1),
          TG_SLEEP_CAP)

TgInit ==
    /\ tgEnv \in TgEnvs
    /\ tgPc = "start"
    /\ tgPart = 1
    /\ tgAttempt = 0
    /\ tgTrace = <<>>

TgOff ==
    /\ tgEnv = [cred |-> FALSE, parts |-> 0]
    /\ tgPc = "off"
    /\ tgPart = 1
    /\ tgAttempt = 0
    /\ tgTrace = <<>>

\* Lines 132-140: the checks before the loop over the parts.
TgStart ==
    /\ tgPc = "start"
    /\ tgPc' = IF ~tgEnv.cred THEN "raised"
               ELSE IF tgEnv.parts = 0 THEN "done"
               ELSE "post"
    /\ UNCHANGED <<tgEnv, tgPart, tgAttempt, tgTrace, nonTgVars>>

\* Lines 156-191: one turn of `while True` for the current part.
TgPost ==
    /\ tgPc = "post"
    /\ \E r \in TgResponses :
         LET attempt == tgAttempt + 1 IN
         IF r.kind = "429" /\ Retry429(attempt)
         THEN \* lines 163-174: sleep, continue
              /\ tgAttempt' = attempt
              /\ tgTrace' = Append(tgTrace,
                     [kind |-> r.kind, sleep |-> Sleep429(r.retry_after, attempt)])
              /\ UNCHANGED <<tgPc, tgPart>>
         ELSE IF r.kind = "ok"
         THEN \* lines 176-178: break, next part
              /\ IF tgPart = tgEnv.parts
                 THEN /\ tgPc' = "done"
                      /\ tgAttempt' = attempt
                      /\ tgTrace' = Append(tgTrace, [kind |-> r.kind, sleep |-> 0])
                      /\ UNCHANGED tgPart
                 ELSE /\ tgPart' = tgPart + 1
                      /\ tgAttempt' = 0
                      /\ tgTrace' = <<>>
                      /\ UNCHANGED tgPc
         ELSE IF attempt <= TG_NET_RETRY
         THEN \* lines 180-183: raise_for_status or requests.post raised
              /\ tgAttempt' = attempt
              /\ tgTrace' = Append(tgTrace,
                     [kind |-> r.kind, sleep |-> TG_NET_SLEEP * attempt])
              /\ UNCHANGED <<tgPc, tgPart>>
         ELSE \* line 191: raise
              /\ tgAttempt' = attempt
              /\ tgTrace' = Append(tgTrace, [kind |-> r.kind, sleep |-> 0])
              /\ tgPc' = "raised"
              /\ UNCHANGED tgPart
    /\ UNCHANGED <<tgEnv, nonTgVars>>

\* tg_send has returned or raised.
TgEnded == tgPc \in {"done", "raised"}

-----------------------------------------------------------------------------
\* radar.py: scan_pct(), and scripts/utils_krx.py fetch_bulk_ohlcv_for_date()
\* called by load_or_fetch_history() of scripts/ma20_scan_kr.py for trading
\* days that are not in the cache

NumBatches == 2   \* batches of tickers of one scan_pct
NumDays == 2      \* trading days of one load_or_fetch_history

RETRY == 2        \* radar.py
MAX_RETRY == 6    \* max_retry of fetch_bulk_ohlcv_for_date

KrxMarkets == <<"KOSPI", "KOSDAQ">>

FetchProgs == {"radar", "ma20_scan_kr"}

\* The units that are fetched: batches, or (day, market) pairs.
FetchUnits(prog) ==
    IF prog = "radar" THEN (1..NumBatches) \X {1}
    ELSE (1..NumDays) \X (1..Len(KrxMarkets))

AllFetchUnits == (1..(IF NumBatches > NumDays THEN NumBatches ELSE NumDays))
                     \X (1..Len(KrxMarkets))

NoFetchLog ==
    [attempts |-> [u \in AllFetchUnits |-> 0],
     got |-> [u \in AllFetchUnits |-> FALSE],
     used |-> {}]

FetchInit ==
    /\ fetchProg \in FetchProgs
    /\ fetchPc = "fetch"
    /\ fetchI = 1
    /\ fetchM = 1
    /\ fetchAttempt = IF fetchProg = "radar" THEN 0 ELSE 1
    /\ fetchFrames = {}
    /\ fetchLog = NoFetchLog

FetchOff ==
    /\ fetchProg = ""
    /\ fetchPc = "off"
    /\ fetchI = 1
    /\ fetchM = 1
    /\ fetchAttempt = 0
    /\ fetchFrames = {}
    /\ fetchLog = NoFetchLog

\* The log after one more attempt for the unit u.
FetchAttempted(u, ok) ==
    [fetchLog EXCEPT !.attempts[u] = @ + 1, !.got[u] = ok]

\* A loop that takes one more turn.
ScanLastAttemptLate(attempt) == attempt >= RETRY + 1

\* radar.py line 506: is this the last turn of `for attempt in range(RETRY + 1)`.
ScanLastAttempt(attempt) == attempt >= RETRY

\* radar.py lines 502-509: one turn of the retry loop of a batch.
\* yf_download_batch or yf_prev_close_map raises, or both return.
ScanPctFetch ==
    /\ fetchProg = "radar"
    /\ fetchPc = "fetch"
    /\ \E ok \in BOOLEAN :
         /\ fetchLog' = FetchAttempted(<<fetchI, 1>>, ok)
         /\ IF ok \/ ScanLastAttempt(fetchAttempt)
            THEN /\ fetchPc' = "classify"
                 /\ UNCHANGED fetchAttempt
            ELSE /\ fetchAttempt' = fetchAttempt + 1
                 /\ UNCHANGED fetchPc
    /\ UNCHANGED <<fetchProg, fetchI, fetchM, fetchFrames, nonFetchVars>>

\* radar.py lines 511-542: the tickers of the batch are classified from
\* data_map, which is empty when every attempt failed; then the next batch.
ScanPctClassify ==
    /\ fetchProg = "radar"
    /\ fetchPc = "classify"
    /\ fetchLog' = [fetchLog EXCEPT
                      !.used = IF fetchLog.got[<<fetchI, 1>>]
                               THEN @ \cup {fetchI} ELSE @]
    /\ fetchI' = fetchI + 1
    /\ fetchAttempt' = 0
    /\ fetchPc' = IF fetchI = NumBatches THEN "done" ELSE "fetch"
    /\ UNCHANGED <<fetchProg, fetchM, fetchFrames, nonFetchVars>>

\* utils_krx.py lines 122-135: one turn of the retry loop of a market.
\* _get_market_ohlcv_safe returns a frame with the required columns, or
\* returns None or a frame without them.
KrxFetch ==
    /\ fetchProg = "ma20_scan_kr"
    /\ fetchPc = "fetch"
    /\ \E ok \in BOOLEAN :
         /\ fetchLog' = FetchAttempted(<<fetchI, fetchM>>, ok)
         /\ IF ok
            THEN \* break; lines 141-166: the frame of the market is appended
                 /\ fetchFrames' = fetchFrames \cup {fetchM}
                 /\ fetchPc' = "market_end"
                 /\ UNCHANGED fetchAttempt
            ELSE IF fetchAttempt = MAX_RETRY
            THEN \* the loop ends with df None; lines 137-139: continue
                 /\ fetchPc' = "market_end"
                 /\ UNCHANGED <<fetchAttempt, fetchFrames>>
            ELSE /\ fetchAttempt' = fetchAttempt + 1
                 /\ UNCHANGED <<fetchPc, fetchFrames>>
    /\ UNCHANGED <<fetchProg, fetchI, fetchM, nonFetchVars>>

\* utils_krx.py: the next market; after the last one lines 167-171, which
\* raise when no market gave a frame, and ma20_scan_kr.py lines 25-41,
\* which append the day's frame or skip the day on the exception.
KrxMarketEnd ==
    /\ fetchProg = "ma20_scan_kr"
    /\ fetchPc = "market_end"
    /\ fetchAttempt' = 1
    /\ IF fetchM < Len(KrxMarkets)
       THEN /\ fetchM' = fetchM + 1
            /\ fetchPc' = "fetch"
            /\ UNCHANGED <<fetchI, fetchFrames, fetchLog>>
       ELSE /\ fetchLog' = [fetchLog EXCEPT
                              !.used = IF fetchFrames # {}
                                       THEN @ \cup {fetchI} ELSE @]
            /\ fetchFrames' = {}
            /\ fetchM' = 1
            /\ fetchI' = fetchI + 1
            /\ fetchPc' = IF fetchI = NumDays THEN "hist_end" ELSE "fetch"
    /\ UNCHANGED <<fetchProg, nonFetchVars>>

\* ma20_scan_kr.py lines 43-53: raise when no day gave a frame, else
\* return the history.
KrxHistEnd ==
    /\ fetchProg = "ma20_scan_kr"
    /\ fetchPc = "hist_end"
    /\ fetchPc' = IF fetchLog.used = {} THEN "raised" ELSE "done"
    /\ UNCHANGED <<fetchProg, fetchI, fetchM, fetchAttempt, fetchFrames,
                   fetchLog, nonFetchVars>>

\* The largest number of attempts for one unit.
FetchLimit(prog) == IF prog = "radar" THEN RETRY + 1 ELSE MAX_RETRY

-----------------------------------------------------------------------------
\* The MA20 rules: eod_ma20_close.py scan(), kis_ma20_close_kr.py
\* calc_signals(), scripts/ma20_scan_kr.py compute_signals().
\*
\* A close is <<v>>, and <<>> when it is NaN (a day with no bar for the
\* ticker in the pivot table of ma20_scan_kr.py).  A rolling mean is
\* <<sum, n>>, the sum and the number of the closes it averages, and <<>>
\* when it is NaN; a comparison with a NaN is false, as in pandas.
\* The window of 20 bars is scaled to MA_WINDOW, the guards of 25 bars and
\* 21 dates to MIN_BARS and MIN_DATES.

MaxSeries == 4    \* longest series of closes
MaxClose == 2     \* largest close

MA_WINDOW == 2    \* rolling(20)
MIN_BARS == 3     \* len(df) < 25
MIN_DATES == 3    \* len(dates) < 21
NEAR_NUM == 5     \* NEAR_PCT = 0.005 = NEAR_NUM / NEAR_DEN
NEAR_NUM_KR == 10 \* near_pct = 0.01 of scripts/ma20_scan_kr.py
NEAR_DEN == 1000

NaN == <<>>
IsNaN(x) == x = NaN

MaScripts == {"eod_ma20_close", "kis_ma20_close_kr", "ma20_scan_kr"}

Closes == {NaN} \cup {<<v>> : v \in 1..MaxClose}

CloseSeries == UNION {[1..n -> Closes] : n \in 0..MaxSeries}

RECURSIVE SumCloses(_, _)
SumCloses(series, idx) ==
    IF idx = {} THEN 0
    ELSE LET k == CHOOSE x \in idx : TRUE
         IN series[k][1] + SumCloses(series, idx \ {k})

\* series.rolling(window, min_periods).mean() at position i: NaN when the
\* window ending at i holds fewer than min_periods closes that are not NaN.
RollingMean(series, i, window, min_periods) ==
    LET idx == {k \in 1..Len(series) :
                    k <= i /\ k > i - window /\ ~IsNaN(series[k])}
    IN IF i < 1 \/ Cardinality(idx) < min_periods THEN NaN
       ELSE <<SumCloses(series, idx), Cardinality(idx)>>

\* A mean over whatever closes the window holds (min_periods = 1).
rolling_mean_partial(series, i) == RollingMean(series, i, MA_WINDOW, 1)

\* close.rolling(20).mean(), and rolling(window=20, min_periods=20).mean():
\* min_periods defaults to the window.
rolling_mean(series, i) == RollingMean(series, i, MA_WINDOW, MA_WINDOW)

\* c < m, c <= m, c > m, c >= m for a close c and a mean m.
LtMean(c, m) == ~IsNaN(c) /\ ~IsNaN(m) /\ c[1] * m[2] < m[1]
LeMean(c, m) == ~IsNaN(c) /\ ~IsNaN(m) /\ c[1] * m[2] <= m[1]
GtMean(c, m) == ~IsNaN(c) /\ ~IsNaN(m) /\ c[1] * m[2] > m[1]
GeMean(c, m) == ~IsNaN(c) /\ ~IsNaN(m) /\ c[1] * m[2] >= m[1]

AbsOf(x) == IF x < 0 THEN -x ELSE x

\* ---- IEEE-754 binary64 arithmetic on quotients of small integers.
\* A float is its exponent e and the bits of its significand, the first of
\* which is 1 and has the weight 2^e; zero has no bit.

MANT_BITS == 53   \* significand of a Python float

FZero == [e |-> 0, bits |-> <<>>]

\* a, b and e with b <= a < 2 * b and the same quotient times 2^e.
RECURSIVE ScaleQuotient(_, _, _)
ScaleQuotient(a, b, e) ==
    IF a < b THEN ScaleQuotient(2 * a, b, e - 1)
    ELSE IF 2 * b <= a THEN ScaleQuotient(a, 2 * b, e + 1)
    ELSE <<a, b, e>>

\* 2^k modulo b.
RECURSIVE Pow2Mod(_, _)
Pow2Mod(k, b) ==
    IF k = 0 THEN 1 % b
    ELSE LET h == Pow2Mod(k \div 2, b)
         IN (h * h * (IF k % 2 = 1 THEN 2 ELSE 1)) % b

\* The remainder of the long division of rem by b after k bits.
RemainderAt(rem, b, k) == (rem * Pow2Mod(k, b)) % b

\* The next k bits of the quotient rem / b, and the remainder after them.
QuotientBits(rem, b, k) ==
    <<[j \in 1..k |-> (2 * RemainderAt(rem, b, j - 1)) \div b],
      RemainderAt(rem, b, k)>>

MaxOf(S) == CHOOSE x \in S : \A y \in S : y <= x

MinIn(S) == CHOOSE x \in S : \A y \in S : x <= y

\* The bits plus one in the last place, and the carry out of the first.
IncBits(bs) ==
    LET zeros == {k \in 1..Len(bs) : bs[k] = 0}
    IN IF zeros = {} THEN <<[k \in 1..Len(bs) |-> 0], 1>>
       ELSE <<[k \in 1..Len(bs) |->
                  IF k < MaxOf(zeros) THEN bs[k]
                  ELSE IF k = MaxOf(zeros) THEN 1 ELSE 0], 0>>

\* The bits after the leading zeros, and the number of those.
StripZeros(bs) ==
    LET ones == {k \in 1..Len(bs) : bs[k] = 1}
    IN IF ones = {} THEN <<<<>>, Len(bs)>>
       ELSE <<SubSeq(bs, MinIn(ones), Len(bs)), MinIn(ones) - 1>>

\* a / b for integers a >= 0 and b > 0, rounded to the nearest float, ties
\* to even; also the float of a decimal literal a / b.
FDiv(a, b) ==
    IF a = 0 THEN FZero
    ELSE LET sc == ScaleQuotient(a, b, 0)
             q == QuotientBits(sc[1] - sc[2], sc[2], MANT_BITS - 1)
             bits == <<1>> \o q[1]
             guard == 2 * q[2] >= sc[2]
             sticky == (2 * q[2] - (IF guard THEN sc[2] ELSE 0)) > 0
             up == guard /\ (sticky \/ bits[MANT_BITS] = 1)
             inc == IncBits(bits)
         IN IF ~up THEN [e |-> sc[3], bits |-> bits]
            ELSE IF inc[2] = 0 THEN [e |-> sc[3], bits |-> inc[1]]
            ELSE [e |-> sc[3] + 1,
                  bits |-> <<1>> \o SubSeq(inc[1], 1, MANT_BITS - 1)]

\* The float with these bits after the binary point.
FFraction(bs) ==
    LET st == StripZeros(bs)
    IN IF st[1] = <<>> THEN FZero ELSE [e |-> -(st[2] + 1), bits |-> st[1]]

\* abs(q - 1.0).  For q in [1/2, 2) the difference is a float and the
\* subtraction is exact; outside of it the difference is 1/2 or more, and
\* stands here as 1/2, above every near_pct.
FAbsMinusOne(q) ==
    IF q = FZero THEN [e |-> 0, bits |-> <<1>>]
    ELSE IF q.e = 0 THEN FFraction(Tail(q.bits))
    ELSE IF q.e = -1
    THEN FFraction(IncBits([k \in 1..Len(q.bits) |-> 1 - q.bits[k]])[1])
    ELSE [e |-> -1, bits |-> <<1>>]

\* Are the bits xs at most the bits ys, both read after the binary point.
BitsLe(xs, ys) ==
    LET n == IF Len(xs) >= Len(ys) THEN Len(xs) ELSE Len(ys)
        x(k) == IF k <= Len(xs) THEN xs[k] ELSE 0
        y(k) == IF k <= Len(ys) THEN ys[k] ELSE 0
        diff == {k \in 1..n : x(k) # y(k)}
    IN IF diff = {} THEN TRUE ELSE x(MinIn(diff)) < y(MinIn(diff))

\* x <= y for two floats that are not negative.
FLe(x, y) ==
    IF x = FZero THEN TRUE
    ELSE IF y = FZero THEN FALSE
    ELSE IF x.e # y.e THEN x.e < y.e
    ELSE BitsLe(x.bits, y.bits)

\* abs(a / b - 1) <= num / NEAR_DEN in floats: eod_ma20_close.py line 83,
\* kis_ma20_close_kr.py line 211.
near_ratio(a, b, num) ==
    FLe(FAbsMinusOne(FDiv(a, b)), FDiv(num, NEAR_DEN))

\* abs(a - b) / b <= num / NEAR_DEN in floats: ma20_scan_kr.py line 78.
near_diff(a, b, num) ==
    FLe(FDiv(AbsOf(a - b), b), FDiv(num, NEAR_DEN))

\* The near rule of eod_ma20_close.py and kis_ma20_close_kr.py for a close
\* c and a mean m = <<sum, n>> above 0; the mean of MA_WINDOW closes is a
\* float, so c / m is the rounded quotient of c * n and sum.
NearRatio(c, m, num) ==
    /\ ~IsNaN(c) /\ ~IsNaN(m)
    /\ m[1] > 0
    /\ near_ratio(c[1] * m[2], m[1], num)

\* The near rule of scripts/ma20_scan_kr.py.
NearDiff(c, m, num) ==
    /\ ~IsNaN(c) /\ ~IsNaN(m)
    /\ m[1] > 0
    /\ near_diff(c[1] * m[2], m[1], num)

At(series, i) == IF i \in 1..Len(series) THEN series[i] ELSE NaN

NoRule == [evaluated |-> FALSE, breakout |-> FALSE, near |-> FALSE,
           signal |-> FALSE]

\* eod_ma20_close.py scan(): None for fewer than 25 bars; else the two
\* rules, and a row when one of them is true.
eod_scan(series) ==
    IF Len(series) < MIN_BARS THEN NoRule
    ELSE LET n == Len(series)
             c0 == series[n]
             c1 == series[n - 1]
             m0 == rolling_mean(series, n)
             m1 == rolling_mean(series, n - 1)
             breakout == LtMean(c1, m1) /\ GeMean(c0, m0)
             near == NearRatio(c0, m0, NEAR_NUM)
         IN [evaluated |-> TRUE, breakout |-> breakout, near |-> near,
             signal |-> breakout \/ near]

\* kis_ma20_close_kr.py calc_signals(): None for fewer than 25 bars and
\* for a NaN among the closes and means; the volume is taken equal on every
\* bar, so that v0 / vm0 = 1 passes VOL_MULT, and MIN_PRICE is 0.
calc_signals(series) ==
    IF Len(series) < MIN_BARS THEN NoRule
    ELSE LET n == Len(series)
             c0 == series[n]
             c1 == series[n - 1]
             m0 == rolling_mean(series, n)
             m1 == rolling_mean(series, n - 1)
         IN IF \E x \in {c0, c1, m0, m1} : IsNaN(x) THEN NoRule
            ELSE LET near == IF m0[1] # 0 THEN NearRatio(c0, m0, NEAR_NUM) ELSE FALSE
                     breakout == LtMean(c1, m1) /\ GeMean(c0, m0)
                 IN [evaluated |-> TRUE, breakout |-> breakout, near |-> near,
                     signal |-> breakout \/ near]

\* scripts/ma20_scan_kr.py compute_signals() for one ticker (one column of
\* the pivot tables): raises for fewer than 21 dates; the traded value of
\* the latest bar is above value_floor when the bar exists.
ma20_compute_signals(series) ==
    IF Len(series) < MIN_DATES THEN NoRule
    ELSE LET n == Len(series)
             c_prev == series[n - 1]
             c_now == series[n]
             m_prev == rolling_mean(series, n - 1)
             m_now == rolling_mean(series, n)
             liquid == ~IsNaN(c_now)
             breakout == LeMean(c_prev, m_prev) /\ GtMean(c_now, m_now) /\ liquid
             near == NearDiff(c_now, m_now, NEAR_NUM_KR) /\ liquid
         IN [evaluated |-> TRUE, breakout |-> breakout, near |-> near,
             signal |-> breakout \/ near]

\* The number of bars of a series.
BarCount(series) == Cardinality({k \in 1..Len(series) : ~IsNaN(series[k])})

NoMaIn == [prog |-> "", series |-> <<>>]

\* eod_ma20_close.py and kis_ma20_close_kr.py get the bars of one symbol,
\* with no NaN close; a column of the pivot table has one.
MaInit ==
    /\ maIn \in {in \in [prog : MaScripts, series : CloseSeries] :
                    in.prog = "ma20_scan_kr" \/ BarCount(in.series) = Len(in.series)}
    /\ maOut = <<>>

MaOff ==
    /\ maIn = NoMaIn
    /\ maOut = <<>>

MaApply ==
    /\ maIn # NoMaIn
    /\ maOut = <<>>
    /\ maOut' = <<CASE maIn.prog = "eod_ma20_close" -> eod_scan(maIn.series)
                    [] maIn.prog = "kis_ma20_close_kr" -> calc_signals(maIn.series)
                    [] maIn.prog = "ma20_scan_kr" -> ma20_compute_signals(maIn.series)>>
    /\ UNCHANGED <<maIn, nonMaVars>>

-----------------------------------------------------------------------------
\* scan_close_kr.py: compute_signals() and passes_filters() for one symbol
\* with at least 70 rows.  A last value is <<v>>, or NaN.

MIN_CHANGE == 3     \* --min-change
MIN_PRICE == 1000   \* --min-price
RSI_MIN == 55       \* --rsi-min
VOL_MULT_NUM == 13  \* --vol-mult 1.3 = VOL_MULT_NUM / VOL_MULT_DEN
VOL_MULT_DEN == 10

\* The last values of close, close.pct_change() * 100, close.rolling(20)
\* .mean(), 100 - 100 / (1 + rs), macd_hist, volume and volume.rolling(20)
\* .mean().  A rolling mean is NaN when a row of its window has no close or
\* no volume; rs is NaN when avg_loss is 0; the exponential means of
\* macd_hist skip the rows with no close, so its last value is a number.
CloseRaw ==
    [close : {NaN, <<500>>, <<2000>>},
     change_pct : {NaN, <<1>>, <<5>>},
     ma20 : {NaN, <<1900>>, <<2100>>},
     rsi14 : {NaN, <<40>>, <<60>>},
     macd_hist : {<<-1>>, <<1>>},
     volume : {NaN, <<100>>, <<200>>},
     vol_ma20 : {NaN, <<100>>}]

\* require_ma20, require_macd and use_volume of main().
CloseArgs == [require_ma20 : BOOLEAN, require_macd : BOOLEAN, use_volume : BOOLEAN]

\* _to_scalar(x, default): the last value as a float, `default` for a NaN.
to_scalar(x, default) == IF IsNaN(x) THEN default ELSE x[1]

\* rsi(): out.fillna(0)
rsi_fillna(x) == IF IsNaN(x) THEN <<0>> ELSE x

\* compute_signals(df), lines 185-196: the dict of floats.
close_compute_signals(raw) ==
    [close |-> to_scalar(raw.close, 0),
     change_pct |-> LET chg_last == raw.change_pct
                    IN IF IsNaN(chg_last) THEN 0 ELSE chg_last[1],
     ma20 |-> to_scalar(raw.ma20, 0),
     rsi14 |-> to_scalar(rsi_fillna(raw.rsi14), 0),
     macd_hist |-> to_scalar(raw.macd_hist, 0),
     volume |-> to_scalar(raw.volume, 0),
     vol_ma20 |-> to_scalar(raw.vol_ma20, 0)]

\* passes_filters(sig, ...) with the default thresholds.
passes_filters(sig, args) ==
    IF sig.close < MIN_PRICE THEN FALSE
    ELSE IF sig.change_pct < MIN_CHANGE THEN FALSE
    ELSE IF args.require_ma20 /\ ~(sig.close > sig.ma20) THEN FALSE
    ELSE IF args.require_macd /\ ~(sig.macd_hist >= 0) THEN FALSE
    ELSE IF sig.rsi14 < RSI_MIN THEN FALSE
    ELSE IF args.use_volume
    THEN IF sig.vol_ma20 <= 0 THEN FALSE
         ELSE IF sig.volume * VOL_MULT_DEN < sig.vol_ma20 * VOL_MULT_NUM THEN FALSE
         ELSE TRUE
    ELSE TRUE

NoCloseIn == [raw |-> <<>>, args |-> <<>>]

CloseInit ==
    /\ closeIn \in [raw : CloseRaw, args : CloseArgs]
    /\ closeOut = <<>>

CloseOff ==
    /\ closeIn = NoCloseIn
    /\ closeOut = <<>>

\* scan_close_kr.py lines 270-283 for one symbol.
CloseApply ==
    /\ closeIn # NoCloseIn
    /\ closeOut = <<>>
    /\ LET sig == close_compute_signals(closeIn.raw)
       IN closeOut' = <<[sig |-> sig, passes |-> passes_filters(sig, closeIn.args)]>>
    /\ UNCHANGED <<closeIn, nonCloseVars>>

-----------------------------------------------------------------------------
\* The near rule of eod_ma20_close.py scan(), kis_ma20_close_kr.py
\* calc_signals() and scripts/ma20_scan_kr.py compute_signals() for closes
\* round the mean.  Closes and means are counted in halves of the currency
\* unit, which are floats, and near_pct in thousandths.

MaxNearStep == 4   \* the closes are at most this many halves off the mean

\* m0, in halves: 100.0 and 50.0
NearMeans == {200, 100}

\* NEAR_PCT: 0.005 in eod_ma20_close.py; os.getenv("NEAR_PCT") in the two
\* others, 0.005 and 0.01 by default.
NearPcts(prog) ==
    IF prog = "eod_ma20_close" THEN {NEAR_NUM} ELSE {NEAR_NUM, NEAR_NUM_KR}

NearInputs ==
    {in \in [prog : MaScripts, mean : NearMeans,
             step : (-MaxNearStep)..MaxNearStep, num : {NEAR_NUM, NEAR_NUM_KR}] :
        in.num \in NearPcts(in.prog)}

\* The close of an input, in halves.
NearClose(in) == in.mean + in.step

\* `near` (eod, kis) and near_mask (ma20_scan_kr) for a liquid symbol.
near_rule(in) ==
    IF in.prog = "ma20_scan_kr"
    THEN near_diff(NearClose(in), in.mean, in.num)
    ELSE near_ratio(NearClose(in), in.mean, in.num)

NoNearIn == [prog |-> "", mean |-> 0, step |-> 0, num |-> 0]

NearInit ==
    /\ nearIn \in NearInputs
    /\ nearOut = <<>>

NearOff ==
    /\ nearIn = NoNearIn
    /\ nearOut = <<>>

NearApply ==
    /\ nearIn \in NearInputs
    /\ nearOut = <<>>
    /\ nearOut' = <<near_rule(nearIn)>>
    /\ UNCHANGED <<nearIn, nonNearVars>>

-----------------------------------------------------------------------------
\* The sections of the digests of eod_ma20_close.py, kis_ma20_close_kr.py
\* and scripts/ma20_scan_kr.py for one liquid symbol whose closes lie within
\* a few units of DigestBase.

DigestBase == 100     \* the closes are round this price
MaxDigestStep == 1    \* and at most this far from it
MaxDigestSeries == 4  \* closes of a symbol

DigestCloses == {<<v>> : v \in (DigestBase - MaxDigestStep)..(DigestBase + MaxDigestStep)}

DigestInputs ==
    [prog : MaScripts,
     series : UNION {[1..n -> DigestCloses] : n \in MIN_BARS..MaxDigestSeries}]

\* eod_ma20_close.py: scan() returns one row for a symbol with a signal and
\* send_mail() prints it once, with its type.
eod_sections(sig) ==
    [breakout |-> sig.signal /\ sig.breakout,
     near |-> sig.signal /\ ~sig.breakout]

\* kis_ma20_close_kr.py main(): breakout_hits and near_hits, and near_hits
\* without the codes of breakout_hits (lines 345-357).
kis_sections(sig) ==
    LET breakout_hits == sig.evaluated /\ sig.breakout
        near_hits == sig.evaluated /\ sig.near
    IN [breakout |-> breakout_hits,
        near |-> near_hits /\ ~breakout_hits]

\* scripts/ma20_scan_kr.py: build_df(breakout_mask) and build_df(near_mask),
\* printed under "1)" and "2)" by main().
ma20_sections(sig) ==
    [breakout |-> sig.evaluated /\ sig.breakout,
     near |-> sig.evaluated /\ sig.near]

NoDigestIn == [prog |-> "", series |-> <<>>]

DigestInit ==
    /\ digestIn \in DigestInputs
    /\ digestOut = <<>>

DigestOff ==
    /\ digestIn = NoDigestIn
    /\ digestOut = <<>>

DigestBuild ==
    /\ digestIn # NoDigestIn
    /\ digestOut = <<>>
    /\ digestOut' =
           <<CASE digestIn.prog = "eod_ma20_close" ->
                      eod_sections(eod_scan(digestIn.series))
               [] digestIn.prog = "kis_ma20_close_kr" ->
                      kis_sections(calc_signals(digestIn.series))
               [] digestIn.prog = "ma20_scan_kr" ->
                      ma20_sections(ma20_compute_signals(digestIn.series))>>
    /\ UNCHANGED <<digestIn, nonDigestVars>>

-----------------------------------------------------------------------------
\* The volume ratio of kis_ma20_close_kr.py calc_signals(),
\* kis_ma20_close_kr_all_fast.py scan_ma20_entry() and rss_digest.py
\* detect_price_alerts_and_spikes(), and the rule that reads it, for one
\* symbol that passes the other rules.

MaxVolume == 2    \* volumes and bases of the ratio
MaxVolMult == 2   \* VOL_MULT, from the environment: -1 .. MaxVolMult

VolScripts == {"kis_ma20_close_kr", "kis_ma20_close_kr_all_fast", "rss_digest"}

\* The base is vol.rolling(20).mean() in the two kis scripts: NaN with too
\* few bars, 0 only when the volumes of the window, today's among them, are
\* 0.  In rss_digest.py it is int(prev_m.get("vol", 0)), 0 for a symbol not
\* seen before.
VolInputs ==
    {in \in [prog : VolScripts, volume : 0..MaxVolume,
             base : {NaN} \cup {<<b>> : b \in 0..MaxVolume},
             mult : (-1)..MaxVolMult] :
        IF in.prog = "rss_digest" THEN ~IsNaN(in.base)
        ELSE in.base = <<0>> => in.volume = 0}

\* The outcome of a rule: was the symbol accepted, was ZeroDivisionError
\* raised.
VolOutcome(accepted, raised) == [accepted |-> accepted, raised |-> raised]

\* calc_signals() lines 201-208.  volx is v0 / vm0, or 0.0.
kis_volume_rule(v0, vm0, VOL_MULT) ==
    IF IsNaN(vm0) THEN VolOutcome(FALSE, FALSE)
    ELSE LET volx == IF vm0[1] > 0 THEN <<v0, vm0[1]>> ELSE <<0, 1>>
         IN IF volx[1] < VOL_MULT * volx[2] THEN VolOutcome(FALSE, FALSE)
            ELSE VolOutcome(TRUE, FALSE)

\* scan_ma20_entry() lines 136-144.  The quotient of two Series does not
\* raise: it is NaN for 0 / 0 and for a NaN, inf for a volume over 0; a NaN
\* compares False and its row is dropped.
fast_volume_rule(volume, vma20, VOL_MULT) ==
    IF IsNaN(vma20) THEN VolOutcome(FALSE, FALSE)
    ELSE IF vma20[1] = 0
    THEN VolOutcome(volume > 0, FALSE)
    ELSE VolOutcome(volume >= VOL_MULT * vma20[1], FALSE)

\* detect_price_alerts_and_spikes() lines 287-292, the volume side of the
\* spike rule.
rss_volume_rule(vol, pv, VOLUME_SPIKE_RATIO) ==
    LET vol_ratio == IF pv > 0 THEN <<vol, pv>> ELSE <<0, 1>>
    IN VolOutcome(pv > 0 /\ vol_ratio[1] >= VOLUME_SPIKE_RATIO * vol_ratio[2],
                  FALSE)

NoVolIn == [prog |-> "", volume |-> 0, base |-> NaN, mult |-> 0]

VolInit ==
    /\ volIn \in VolInputs
    /\ volOut = <<>>

VolOff ==
    /\ volIn = NoVolIn
    /\ volOut = <<>>

VolApply ==
    /\ volIn # NoVolIn
    /\ volOut = <<>>
    /\ volOut' =
           <<CASE volIn.prog = "kis_ma20_close_kr" ->
                      kis_volume_rule(volIn.volume, volIn.base, volIn.mult)
               [] volIn.prog = "kis_ma20_close_kr_all_fast" ->
                      fast_volume_rule(volIn.volume, volIn.base, volIn.mult)
               [] volIn.prog = "rss_digest" ->
                      rss_volume_rule(volIn.volume, volIn.base[1], volIn.mult)>>
    /\ UNCHANGED <<volIn, nonVolVars>>

-----------------------------------------------------------------------------
\* scan_close_kr.py rsi(): the last value of the series it returns.  A
\* number of the computation is a quotient <<numerator, denominator>> or NaN.

MaxRsiSeries == 4   \* closes of a symbol
MaxRsiClose == 3    \* a close is in 1 .. MaxRsiClose
RSI_PERIOD == 2     \* period; 14 in the source

RsiSeries == UNION {[1..n -> 1..MaxRsiClose] : n \in 1..MaxRsiSeries}

\* delta.clip(lower=0.0) and -delta.clip(upper=0.0) at row t >= 2.
rsi_gain(series, t) ==
    IF series[t] > series[t - 1] THEN series[t] - series[t - 1] ELSE 0

rsi_loss(series, t) ==
    IF series[t] < series[t - 1] THEN series[t - 1] - series[t] ELSE 0

\* x.ewm(alpha=1 / period, adjust=False).mean() at row t >= 2, times
\* period^(t - 2): row 1 of x is NaN and is skipped, the mean starts at row 2.
RECURSIVE EwmScaled(_, _)
EwmScaled(x, t) ==
    IF t = 2 THEN x[2]
    ELSE (RSI_PERIOD - 1) * EwmScaled(x, t - 1) + (RSI_PERIOD ^ (t - 3)) * x[t]

\* out.fillna(0): 0 for a NaN.
rsi_out_fillna(out) == IF IsNaN(out) THEN <<0, 1>> ELSE out

\* rsi(series, period).iloc[-1]
rsi(series) ==
    LET t == Len(series)
    IN IF t < 2 THEN rsi_out_fillna(NaN)
       ELSE LET gain == [k \in 2..t |-> rsi_gain(series, k)]
                loss == [k \in 2..t |-> rsi_loss(series, k)]
                avg_gain == EwmScaled(gain, t)
                avg_loss == EwmScaled(loss, t)
                \* avg_gain / avg_loss.replace(0, np.nan)
                rs == IF avg_loss = 0 THEN NaN ELSE <<avg_gain, avg_loss>>
                \* 100 - 100 / (1 + rs)
                out == IF IsNaN(rs) THEN NaN
                       ELSE <<100 * rs[1], rs[1] + rs[2]>>
            IN rsi_out_fillna(out)

RsiInit ==
    /\ rsiIn \in RsiSeries
    /\ rsiOut = <<>>

RsiOff ==
    /\ rsiIn = <<>>
    /\ rsiOut = <<>>

RsiApply ==
    /\ rsiIn # <<>>
    /\ rsiOut = <<>>
    /\ rsiOut' = <<rsi(rsiIn)>>
    /\ UNCHANGED <<rsiIn, nonRsiVars>>

-----------------------------------------------------------------------------
\* One run of radar.py dedup_and_send() for one market, and of rss_digest.py
\* main() for one category, with a delivery that succeeds: which events the
\* run records and which it renders.  The events found are 1 .. found, in
\* the order of `hits` or of the feed.

MaxFound == 3   \* events found by a run
MaxTopN == 2    \* TOP_N of the environment: 0 .. MaxTopN
MAX_N == 2      \* max_n of build_html_cards; 30 in the source

ShowInputs ==
    {in \in [prog : {"radar", "rss_digest"}, found : 0..MaxFound,
             old : SUBSET (1..MaxFound), top_n : 0..MaxTopN] :
        /\ in.old \subseteq 1..in.found
        /\ in.prog = "rss_digest" => in.top_n = 0}

\* items[:n] of the events of S taken in order.
FirstOf(S, n) == {x \in S : Cardinality({y \in S : y < x}) < n}

\* format_msg(): hits[:max(1, TOP_N)]
format_msg(hits, top_n) == FirstOf(hits, IF top_n > 1 THEN top_n ELSE 1)

\* build_html_cards(): items[:max_n]
build_html_cards(items) == FirstOf(items, MAX_N)

NoShowIn == [prog |-> "", found |-> 0, old |-> {}, top_n |-> 0]

NoShowOut == [sent |-> {}, file |-> {}, new |-> {}, shown |-> {}]

ShowInit ==
    /\ showIn \in ShowInputs
    /\ showPc = "start"
    /\ showOut = [sent |-> showIn.old, file |-> showIn.old, new |-> {},
                  shown |-> {}]

ShowOff ==
    /\ showIn = NoShowIn
    /\ showPc = "off"
    /\ showOut = NoShowOut

\* dedup_and_send() lines 578-587; fetch_rss_new_items() lines 330-361:
\* every event not recorded before is recorded and is new.
ShowRecord ==
    /\ showPc = "start"
    /\ LET new == (1..showIn.found) \ showOut.sent
       IN showOut' = [showOut EXCEPT !.sent = @ \cup new, !.new = new]
    /\ showPc' = "recorded"
    /\ UNCHANGED <<showIn, nonShowVars>>

\* dedup_and_send() lines 589-591: the message of the new hits, if any;
\* main() of rss_digest.py: the mail of the new items, after the first
\* save_state.
ShowSend ==
    /\ showPc = IF showIn.prog = "radar" THEN "recorded" ELSE "saved"
    /\ showOut' = [showOut EXCEPT !.shown =
                       IF showIn.prog = "radar"
                       THEN IF showOut.new # {}
                            THEN format_msg(showOut.new, showIn.top_n) ELSE {}
                       ELSE build_html_cards(showOut.new)]
    /\ showPc' = IF showIn.prog = "radar" THEN "sent" ELSE "done"
    /\ UNCHANGED <<showIn, nonShowVars>>

\* save_state(state): line 593 of radar.py, after the message; line 573 of
\* rss_digest.py, before the mail.
ShowSave ==
    /\ showPc = IF showIn.prog = "radar" THEN "sent" ELSE "recorded"
    /\ showOut' = [showOut EXCEPT !.file = showOut.sent]
    /\ showPc' = IF showIn.prog = "radar" THEN "done" ELSE "saved"
    /\ UNCHANGED <<showIn, nonShowVars>>

-----------------------------------------------------------------------------
\* radar.py _split_message(text, max_len).  A text is the sequence of its
\* characters.

MaxText == 5       \* characters of a text
MaxSplitLen == 3   \* max_len is in 1 .. MaxSplitLen

SP == " "
NL == "\n"

SplitChars == {"a", "b", SP, NL}

Whitespace == {SP, NL}

SplitTexts == UNION {[1..n -> SplitChars] : n \in 0..MaxText}

\* str.strip()
RECURSIVE lstrip(_)
lstrip(s) ==
    IF s # <<>> /\ s[1] \in Whitespace THEN lstrip(Tail(s)) ELSE s

RECURSIVE rstrip(_)
rstrip(s) ==
    IF s # <<>> /\ s[Len(s)] \in Whitespace
    THEN rstrip(SubSeq(s, 1, Len(s) - 1)) ELSE s

strip(s) == rstrip(lstrip(s))

\* str.splitlines(): the lines between the line ends, none after the last.
RECURSIVE splitlines(_)
splitlines(s) ==
    IF s = <<>> THEN <<>>
    ELSE LET ends == {i \in 1..Len(s) : s[i] = NL}
         IN IF ends = {} THEN <<s>>
            ELSE LET i == MinIn(ends)
                 IN <<SubSeq(s, 1, i - 1)>> \o splitlines(SubSeq(s, i + 1, Len(s)))

\* "\n".join(buf)
RECURSIVE join_lines(_)
join_lines(buf) ==
    IF buf = <<>> THEN <<>>
    ELSE IF Len(buf) = 1 THEN buf[1]
    ELSE buf[1] \o <<NL>> \o join_lines(Tail(buf))

\* Lines 111-114: the chunks cut off a line longer than max_len, and the
\* rest of the line.
RECURSIVE hard_split(_, _)
hard_split(s, max_len) ==
    IF Len(s) > max_len
    THEN LET rest == hard_split(SubSeq(s, max_len + 1, Len(s)), max_len)
         IN [chunks |-> <<strip(SubSeq(s, 1, max_len))>> \o rest.chunks,
             s |-> rest.s]
    ELSE [chunks |-> <<>>, s |-> s]

\* Lines 100-120: the loop over the lines from line i on, then lines 122-123.
RECURSIVE split_loop(_, _, _, _, _, _)
split_loop(lines, i, chunks, buf, cur, max_len) ==
    IF i > Len(lines)
    THEN IF buf # <<>> THEN Append(chunks, strip(join_lines(buf))) ELSE chunks
    ELSE LET line == lines[i]
             add == (IF buf # <<>> THEN 1 ELSE 0) + Len(line)
         IN IF cur + add <= max_len
            THEN split_loop(lines, i + 1, chunks, Append(buf, line), cur + add,
                            max_len)
            ELSE LET flushed == IF buf # <<>>
                                THEN Append(chunks, strip(join_lines(buf)))
                                ELSE chunks
                 IN IF Len(line) > max_len
                    THEN LET hs == hard_split(line, max_len)
                         IN IF strip(hs.s) # <<>>
                            THEN split_loop(lines, i + 1, flushed \o hs.chunks,
                                            <<strip(hs.s)>>, Len(strip(hs.s)),
                                            max_len)
                            ELSE split_loop(lines, i + 1, flushed \o hs.chunks,
                                            <<>>, 0, max_len)
                    ELSE split_loop(lines, i + 1, flushed, <<line>>, Len(line),
                                    max_len)

\* The list as it is.
keep_all(chunks) == chunks

\* [c for c in chunks if c and c.strip()]
RECURSIVE non_blank(_)
non_blank(chunks) ==
    IF chunks = <<>> THEN <<>>
    ELSE IF chunks[1] # <<>> /\ strip(chunks[1]) # <<>>
    THEN <<chunks[1]>> \o non_blank(Tail(chunks))
    ELSE non_blank(Tail(chunks))

split_message(text, max_len) ==
    LET stripped == strip(text)
    IN IF stripped = <<>> THEN <<>>
       ELSE IF Len(stripped) <= max_len THEN <<stripped>>
       ELSE non_blank(split_loop(splitlines(stripped), 1, <<>>, <<>>, 0, max_len))

NoSplitIn == [text |-> <<>>, max_len |-> 0]

SplitInit ==
    /\ splitIn \in [text : SplitTexts, max_len : 1..MaxSplitLen]
    /\ splitOut = <<>>

SplitOff ==
    /\ splitIn = NoSplitIn
    /\ splitOut = <<>>

SplitApply ==
    /\ splitIn # NoSplitIn
    /\ splitOut = <<>>
    /\ splitOut' = <<split_message(splitIn.text, splitIn.max_len)>>
    /\ UNCHANGED <<splitIn, nonSplitVars>>

-----------------------------------------------------------------------------
\* merge_and_send.py prioritize_and_trim(df).  A row has the fields code,
\* market, breakout, near, above and pct; df is the sequence of its rows.

MaxRows == 2    \* rows of df
MaxTrimTopN == 2   \* TOPN of the environment: 0 .. MaxTrimTopN

\* The stocks of the results, two of KOSPI, one of KOSDAQ and one of
\* neither market.
TrimMarketOf ==
    [c \in {"005930", "000660", "247540", "900110"} |->
        CASE c = "005930" -> "KOSPI"
          [] c = "000660" -> "KOSPI"
          [] c = "247540" -> "KOSDAQ"
          [] c = "900110" -> "KONEX"]

TrimFlags ==
    {[breakout |-> TRUE, near |-> TRUE, above |-> TRUE],
     [breakout |-> FALSE, near |-> TRUE, above |-> TRUE],
     [breakout |-> FALSE, near |-> FALSE, above |-> TRUE],
     [breakout |-> FALSE, near |-> FALSE, above |-> FALSE]}

TrimRows ==
    {[code |-> c, market |-> TrimMarketOf[c], breakout |-> f.breakout,
      near |-> f.near, above |-> f.above, pct |-> p] :
        c \in DOMAIN TrimMarketOf, f \in TrimFlags, p \in {1, 2}}

TrimInputs ==
    [df : UNION {[1..n -> TrimRows] : n \in 0..MaxRows}, topn : 0..MaxTrimTopN]

\* A rank that puts near before breakout.
rank_near_first(row) ==
    IF row.near THEN 0 ELSE IF row.breakout THEN 1 ELSE IF row.above THEN 2 ELSE 9

\* rank(row), lines 81-85
rank(row) ==
    IF row.breakout THEN 0 ELSE IF row.near THEN 1 ELSE IF row.above THEN 2 ELSE 9

\* Is row r before row s for by=["_rank", "pct"], ascending=[True, False].
SortsBefore(r, s) ==
    \/ rank(r) < rank(s)
    \/ rank(r) = rank(s) /\ r.pct > s.pct

\* df.sort_values(...): the rows in the order of their keys, rows of equal
\* keys in the order they had.
sort_values(df) ==
    LET pos(i) == Cardinality({j \in 1..Len(df) :
                      \/ SortsBefore(df[j], df[i])
                      \/ ~SortsBefore(df[i], df[j]) /\ j < i}) + 1
    IN [k \in 1..Len(df) |-> df[CHOOSE i \in 1..Len(df) : pos(i) = k]]

\* The rows of df at the indices of idx, in order.
RECURSIVE RowsAt(_, _)
RowsAt(df, idx) ==
    IF idx = {} THEN <<>>
    ELSE <<df[MinIn(idx)]>> \o RowsAt(df, idx \ {MinIn(idx)})

\* df.drop_duplicates(subset=["code"], keep="first")
drop_duplicates(df) ==
    RowsAt(df, {i \in 1..Len(df) : \A j \in 1..(i - 1) : df[j].code # df[i].code})

\* df[df.get("market") == mkt].head(TOPN), for TOPN >= 0
market_head(df, mkt, topn) ==
    LET d == RowsAt(df, {i \in 1..Len(df) : df[i].market = mkt})
    IN SubSeq(d, 1, IF topn < Len(d) THEN topn ELSE Len(d))

prioritize_and_trim(df, topn) ==
    IF df = <<>> THEN df
    ELSE LET deduped == drop_duplicates(sort_values(df))
         IN market_head(deduped, "KOSPI", topn) \o market_head(deduped, "KOSDAQ", topn)

NoTrimIn == [df |-> <<>>, topn |-> -1]

TrimInit ==
    /\ trimIn \in TrimInputs
    /\ trimOut = <<>>

TrimOff ==
    /\ trimIn = NoTrimIn
    /\ trimOut = <<>>

TrimApply ==
    /\ trimIn # NoTrimIn
    /\ trimOut = <<>>
    /\ trimOut' = <<prioritize_and_trim(trimIn.df, trimIn.topn)>>
    /\ UNCHANGED <<trimIn, nonTrimVars>>

-----------------------------------------------------------------------------
\* Specifications

\* rss_digest.py does not run.
RssOff == RssInitWith(NoFeeds, NoFile)

\* Every program but g is off.
OffExcept(g) ==
    /\ IF g = "rss" THEN TRUE ELSE RssOff
    /\ IF g = "radar" THEN TRUE ELSE RadarOff
    /\ IF g = "key" THEN TRUE ELSE KeyOff
    /\ IF g = "notify" THEN TRUE ELSE NotifyOff
    /\ IF g = "scan" THEN TRUE ELSE ScanOff
    /\ IF g = "main" THEN TRUE ELSE MainOff
    /\ IF g = "should" THEN TRUE ELSE ShouldOff
    /\ IF g = "tg" THEN TRUE ELSE TgOff
    /\ IF g = "fetch" THEN TRUE ELSE FetchOff
    /\ IF g = "ma" THEN TRUE ELSE MaOff
    /\ IF g = "close" THEN TRUE ELSE CloseOff
    /\ IF g = "near" THEN TRUE ELSE NearOff
    /\ IF g = "digest" THEN TRUE ELSE DigestOff
    /\ IF g = "vol" THEN TRUE ELSE VolOff
    /\ IF g = "rsi" THEN TRUE ELSE RsiOff
    /\ IF g = "show" THEN TRUE ELSE ShowOff
    /\ IF g = "split" THEN TRUE ELSE SplitOff
    /\ IF g = "trim" THEN TRUE ELSE TrimOff

\* Runs of rss_digest.py main(), one after the other.
Init ==
    /\ \E file \in {NoFile, JsonFile(AgedState)} : RssInitWith(FeedUniverse, file)
    /\ OffExcept("rss")

Next ==
    \/ RssBegin
    \/ RssBeginRaises
    \/ RssSave1Open
    \/ RssSave1Write
    \/ RssSendHoldings
    \/ RssSendMarket
    \/ RssSave2Open
    \/ RssSave2Write
    \/ RssCrash

Spec == Init /\ [][Next]_vars

\* The runs of main() when only the feeds of US_MARKET serve entries, none
\* of them about a holding: the bucket US, with its cooldown of 1800 s.
CooldownUniverse ==
    [c \in Categories |->
        IF c = "US_MARKET"
        THEN {Item("Fed holds rates", "r/1"), Item("GDP revised", "b/3")}
        ELSE {}]

InitCooldown ==
    /\ RssInitWith(CooldownUniverse, NoFile)
    /\ OffExcept("rss")

SpecCooldown == InitCooldown /\ [][Next]_vars

\* The runs of main() when the feeds of US_MARKET serve two entries, one of
\* them about a holding: the buckets HOLDINGS and US.
LastSentUniverse ==
    [c \in Categories |->
        IF c = "US_MARKET"
        THEN {Item("NVIDIA jumps", "c/2"), Item("GDP revised", "b/3")}
        ELSE {}]

InitLastSent ==
    /\ RssInitWith(LastSentUniverse, NoFile)
    /\ OffExcept("rss")

SpecLastSent == InitLastSent /\ [][Next]_vars

\* Workers running radar.py dedup_and_send() on the same state.json.
InitRadar == RadarInit /\ OffExcept("radar")

NextRadar ==
    \/ \E w \in Workers : RadarLoad(w)
    \/ \E w \in Workers : RadarSend(w)
    \/ \E w \in Workers : RadarSaveOpen(w)
    \/ \E w \in Workers : RadarSaveWrite(w)
    \/ \E w \in Workers : RadarCrash(w)

SpecRadar == InitRadar /\ [][NextRadar]_vars

\* sig_key() applied to any two hits.
InitKey == KeyInit /\ OffExcept("key")

NextKey == KeyApply

SpecKey == InitKey /\ [][NextKey]_vars

\* One run of merge_and_send.py or of scripts/ma20_scan_kr.py.
InitNotify == NotifyInit /\ OffExcept("notify")

NextNotify ==
    \/ MergeMustEnv
    \/ MergeSendMail
    \/ MergeTgSend
    \/ Ma20SendEmail
    \/ Ma20SendTelegram

SpecNotify == InitNotify /\ [][NextNotify]_vars

\* One run of the scan loop of eod_ma20_close.py, kis_ma20_close_kr.py or
\* scan_close_kr.py.
InitScan == ScanInit /\ OffExcept("scan")

NextScan ==
    \/ EodScanStep
    \/ EodSendMail
    \/ KisScanStep
    \/ KisSendMail
    \/ CloseScanStep
    \/ CloseWriteOut

SpecScan == InitScan /\ [][NextScan]_vars

\* One run of main() of radar.py.
InitMain == MainInit /\ OffExcept("main")

NextMain ==
    \/ MainUS
    \/ MainJP
    \/ MainKR

SpecMain == InitMain /\ [][NextMain]_vars

\* cooldown_ok applied to one input.
InitShould == ShouldInit /\ OffExcept("should")

NextShould == ShouldApply

SpecShould == InitShould /\ [][NextShould]_vars

\* One call of tg_send.  The call is a sequential loop of one thread, which
\* takes its next step as long as it has one.
InitTg == TgInit /\ OffExcept("tg")

NextTg ==
    \/ TgStart
    \/ TgPost

SpecTg == InitTg /\ [][NextTg]_vars

SpecTgLive == SpecTg /\ WF_vars(NextTg)

\* One scan_pct of radar.py, or one load_or_fetch_history of ma20_scan_kr.py.
InitFetch == FetchInit /\ OffExcept("fetch")

NextFetch ==
    \/ ScanPctFetch
    \/ ScanPctClassify
    \/ KrxFetch
    \/ KrxMarketEnd
    \/ KrxHistEnd

SpecFetch == InitFetch /\ [][NextFetch]_vars

\* The MA20 rules of one script applied to one series.
InitMa == MaInit /\ OffExcept("ma")

NextMa == MaApply

SpecMa == InitMa /\ [][NextMa]_vars

\* compute_signals and passes_filters of scan_close_kr.py for one symbol.
InitClose == CloseInit /\ OffExcept("close")

NextClose == CloseApply

SpecClose == InitClose /\ [][NextClose]_vars

\* The near rule of one script applied to one close and one mean.
InitNear == NearInit /\ OffExcept("near")

NextNear == NearApply

SpecNear == InitNear /\ [][NextNear]_vars

\* The digest sections of one script for one symbol.
InitDigest == DigestInit /\ OffExcept("digest")

NextDigest == DigestBuild

SpecDigest == InitDigest /\ [][NextDigest]_vars

\* The volume rule of one script for one symbol.
InitVol == VolInit /\ OffExcept("vol")

NextVol == VolApply

SpecVol == InitVol /\ [][NextVol]_vars

\* rsi() of scan_close_kr.py applied to one series of closes.
InitRsi == RsiInit /\ OffExcept("rsi")

NextRsi == RsiApply

SpecRsi == InitRsi /\ [][NextRsi]_vars

\* One run that records and shows the events it found.
InitShow == ShowInit /\ OffExcept("show")

NextShow ==
    \/ ShowRecord
    \/ ShowSend
    \/ ShowSave

SpecShow == InitShow /\ [][NextShow]_vars

\* _split_message of radar.py applied to one text.
InitSplit == SplitInit /\ OffExcept("split")

NextSplit == SplitApply

SpecSplit == InitSplit /\ [][NextSplit]_vars

\* prioritize_and_trim of merge_and_send.py applied to one set of rows.
InitTrim == TrimInit /\ OffExcept("trim")

NextTrim == TrimApply

SpecTrim == InitTrim /\ [][NextTrim]_vars

-----------------------------------------------------------------------------
\* Properties of rss_digest.py main()

\* The category whose new items a market bucket carries.
CategoryOf(b) ==
    CASE b = "US" -> "US_MARKET"
      [] b = "KR" -> "KOREA_ECON_POLICY"
      [] b = "CRYPTO" -> "CRYPTO"
      [] b = "DART" -> "DART"

\* The ids the state file holds for a category (none when it is unreadable).
PersistedSeen(c) == rss_load_state(rssFile).seen_items[c]

\* C1 (idempotence): a run whose input is the input of the previous run,
\* which ran to its end, finds no new item in any category and so selects no
\* news bucket for sending.
C1_Idempotence ==
    sameInput =>
        /\ \A c \in Categories : newItems[c] = {}
        /\ \A b \in Buckets \ {"SPIKES"} : ~sendFlags[b]

\* C2 (dedup records are durable only after a successful dispatch): when a
\* run ends by a failed send or by the process stopping, without any email
\* delivered, none of the ids of its new items is in the state file.
C2_SeenOnlyAfterDispatch ==
    (rssPc \in {"raised", "crashed"} /\ delivered = NoneDelivered) =>
        \A c \in Categories : \A it \in newItems[c] :
            ItemId(c, it) \notin PersistedSeen(c)

\* C3 (cooldown skip leaves items unseen): the items of a bucket that has
\* new items and is not sent because of its cooldown, and that are in no
\* other batch of the run, are not recorded as seen in the state file.
C3_CooldownSkipNotSeen ==
    \A b \in {"US", "KR", "CRYPTO"} :
        (BucketItems(newItems, b) # {} /\ ~sendFlags[b]) =>
            \A it \in BucketItems(newItems, b) \ BucketItems(newItems, "HOLDINGS") :
                ItemId(CategoryOf(b), it) \notin PersistedSeen(CategoryOf(b))

\* C4 (cooldown correctness): take a bucket with cooldown C > 0 whose items
\* the previous run delivered, recording last_sent = L, and which has new
\* items again in this run.  The run selects the bucket exactly when its
\* cooldown check happens at least C after L; it delivers the bucket's items
\* only if it selected the bucket, and a run that reaches its end has
\* delivered every bucket it selected.
C4_CooldownCorrect ==
    \A b \in {"US", "KR", "CRYPTO"} :
        (prevDelivered[b] > 0 /\ BucketItems(newItems, b) # {}) =>
            /\ rssPc = "save1" =>
                 (sendFlags[b] <=> now - prevDelivered[b] >= CooldownOf(b))
            /\ delivered[b] > 0 => sendFlags[b]
            /\ rssPc = "done" => (sendFlags[b] => delivered[b] > 0)

\* Both attempts send: the bucket US was delivered by the previous run and,
\* its cooldown over, again by this one.
C4_Witness ==
    /\ rssPc = "done"
    /\ prevDelivered["US"] > 0
    /\ BucketItems(newItems, "US") # {}
    /\ delivered["US"] > 0

\* The second attempt is suppressed: US has new items within the cooldown.
C4_WitnessSuppressed ==
    /\ rssPc = "done"
    /\ prevDelivered["US"] > 0
    /\ BucketItems(newItems, "US") # {}
    /\ ~sendFlags["US"]

\* C6 (dedup filter): an id that a run returned as new and recorded is not
\* returned as new again by the next run, when the first ran to its end.
C6_NewAtMostOnce ==
    \A c \in Categories : \A it \in newItems[c] : ItemId(c, it) \notin prevNew

\* C7 (corrupt state aborts): a run that finds the state file unreadable
\* does not go on to classify against an empty store.
C7_CorruptAborts ==
    ~(rssPc = "save1" /\ rssFile.kind = "partial")

\* C10 (atomic replace): when the process stops, the state file holds a
\* complete document (the previous one or the new one) or does not exist.
C10_AtomicSave ==
    rssPc = "crashed" => rssFile.kind # "partial"

-----------------------------------------------------------------------------
\* Properties of merge_and_send.py and scripts/ma20_scan_kr.py main()

\* C5 (partial-failure isolation): in a finished run with both channels
\* configured where one channel fails and the other works, the working
\* channel was attempted and delivered its message, and no exception
\* escaped main().
C5_FailureIsolated ==
    (notifyPc \in {"done", "raised"} /\ notifyEnv.mailEnv /\ notifyEnv.tgEnv) =>
        /\ (notifyEnv.smtp = "error" /\ notifyEnv.telegram = "ok") =>
               /\ notifyLog.tgPosts > 0
               /\ notifyLog.tgDelivered > 0
               /\ ~notifyLog.escaped
        /\ (notifyEnv.smtp = "ok" /\ notifyEnv.telegram # "ok") =>
               /\ notifyLog.mailDelivered
               /\ ~notifyLog.escaped

-----------------------------------------------------------------------------
\* Properties of radar.py

\* The keys of the hits of the message a worker delivered.
SentKeys(w) ==
    {HitKey(radarIn[w].market, radarIn[w].interval, h) : h \in radarSent[w]}

\* C8 (check-and-set is serialized): two workers that both ran
\* dedup_and_send to its end on the same state file have not both notified
\* the same key.
C8_NoDoubleNotify ==
    \A w1, w2 \in Workers :
        (w1 # w2 /\ radarPc[w1] = "done" /\ radarPc[w2] = "done") =>
            SentKeys(w1) \cap SentKeys(w2) = {}

\* The identity fields of a hit: market, symbol, interval, bar timestamp.
Identity(e) == <<e.market, e.hit.ticker, e.interval, e.hit.ts_key>>

\* C9 (fingerprint stability): the keys of two hits are equal exactly when
\* the hits have the same market, ticker, interval and bar timestamp,
\* whatever their pct, price and news.
C9_KeyStability ==
    keyOut # NoKeys =>
        ((keyOut[1] = keyOut[2]) <=> (Identity(keyIn[1]) = Identity(keyIn[2])))

\* Two hits that differ only in pct, price and news got the same key.
C9_Witness ==
    /\ keyOut # NoKeys
    /\ keyIn[1] # keyIn[2]
    /\ Identity(keyIn[1]) = Identity(keyIn[2])
    /\ keyOut[1] = keyOut[2]

-----------------------------------------------------------------------------
\* Properties of the scan loops

\* C11 (per-symbol failure isolation): whatever fetching and classifying a
\* symbol gives, no exception escapes the loop, and a run that has ended
\* scanned every symbol of the universe, collected exactly the symbols with
\* a signal and dispatched the digest.
C11_SymbolIsolated ==
    /\ ~scanLog.escaped
    /\ scanPc \in {"done", "raised"} =>
         /\ scanLog.scanned = Symbols
         /\ scanLog.hits = {y \in Symbols : scanEnv.outcome[y] = "signal"}
         /\ scanLog.dispatched

\* C12 (a market's failed send does not propagate): when the run of
\* radar main has ended and the send of the US digest failed after all its
\* retries, JP and KR were scanned, and each of them with new hits and a
\* working channel was sent and its keys saved.
C12_MarketIsolated ==
    (MainEnded /\ mainEnv.hasNew["US"] /\ mainEnv.tg["US"] = "raise") =>
        \A m \in {"JP", "KR"} :
            /\ m \in mainLog.scanned
            /\ (mainEnv.hasNew[m] /\ mainEnv.tg[m] = "ok") =>
                   (m \in mainLog.sent /\ m \in mainLog.saved)

-----------------------------------------------------------------------------
\* Properties of the bucket bookkeeping of rss_digest.py

\* C13 (last_sent is persisted): when a run has ended, by returning or by
\* an exception of a later email, every bucket whose email was delivered in
\* the run has the time mark_sent recorded for it in the state file.
C13_LastSentPersisted ==
    rssPc \in {"done", "raised"} =>
        \A b \in Buckets :
            delivered[b] > 0 =>
                rss_load_state(rssFile).last_sent[b] = delivered[b]

\* C14 (ShouldSend): cooldown_ok returns true exactly when the cooldown is
\* 0, or the bucket has no last_sent entry, or the clock minus the entry is
\* at least the cooldown; with a cooldown of 0 it returns true whatever the
\* entry is.
C14_ShouldSend ==
    shouldOut # <<>> =>
        /\ shouldOut[1] = (\/ shouldIn.cooldown_sec = 0
                           \/ ~shouldIn.present
                           \/ shouldIn.t - shouldIn.last >= shouldIn.cooldown_sec)
        /\ shouldIn.cooldown_sec = 0 => shouldOut[1]

\* cooldown_ok returned true for a cooldown of 0 and an entry later than
\* the clock.
C14_Witness ==
    /\ shouldOut = <<TRUE>>
    /\ shouldIn.cooldown_sec = 0
    /\ shouldIn.present
    /\ shouldIn.last > shouldIn.t

-----------------------------------------------------------------------------
\* Properties of the size of the dedup stores

\* The ids fetch_rss_new_items has just added for a category.
NewIdsOf(c) == {ItemId(c, it) : it \in newItems[c]}

\* C15 (prune evicts oldest first): right after the fetch of a run, while
\* the state file is still the one the run loaded, every id the cut has
\* retained was first seen no earlier than every id it has evicted: when an
\* id first seen in this run was evicted, no id of the loaded file, first
\* seen in an earlier run, is retained.
C15_OldestEvictedFirst ==
    rssPc = "save1" =>
        \A c \in Categories :
            (NewIdsOf(c) \ rssState.seen_items[c] # {}) =>
                (rssState.seen_items[c] \cap PersistedSeen(c) = {})

\* The largest number of keys one call of dedup_and_send adds: a maximum
\* size that still lets the store hold the hits of one digest.
RadarStoreCap == Cardinality(RadarHits)

\* C16 (the persisted store is bounded): after any sequence of runs of
\* dedup_and_send, the 'sent' map of state.json holds no more keys than
\* its maximum size.
C16_StoreBounded ==
    Cardinality(radar_load_state(radarFile)) <= RadarStoreCap

-----------------------------------------------------------------------------
\* Properties of the retries

\* The sleeps of the part being sent, in order.
TgSleeps == [k \in 1..(tgAttempt - (IF TgEnded THEN 1 ELSE 0)) |-> tgTrace[k].sleep]

FetchGaveUp(u) ==
    /\ fetchLog.attempts[u] = FetchLimit(fetchProg)
    /\ ~fetchLog.got[u]

\* C18 (fetch retries are bounded, then the unit is skipped): a batch of
\* radar is attempted at most RETRY + 1 times and a market of a day of the
\* KRX fetch at most max_retry times; a batch whose attempts all failed, and
\* a day whose markets all failed, give the run no data; and the run goes
\* on: when it has ended, every batch and every market of every day has
\* been attempted.
C18_FetchBounded ==
    /\ \A u \in AllFetchUnits : fetchLog.attempts[u] <= FetchLimit(fetchProg)
    /\ \A u \in FetchUnits(fetchProg) :
           (FetchGaveUp(u) /\ u[1] = fetchI) => u[2] \notin fetchFrames
    /\ \A i \in fetchLog.used :
           \E u \in FetchUnits(fetchProg) : u[1] = i /\ ~FetchGaveUp(u)
    /\ fetchPc \in {"done", "raised", "hist_end"} =>
           \A u \in FetchUnits(fetchProg) : fetchLog.attempts[u] >= 1

\* The run has ended; its first batch, or the first market of its first
\* day, failed at every attempt, and a later batch or day gave data.
C18_Witness ==
    /\ fetchPc = "done"
    /\ FetchGaveUp(<<1, 1>>)
    /\ 1 \notin fetchLog.used
    /\ 2 \in fetchLog.used

-----------------------------------------------------------------------------
\* Properties of the indicators

\* C19 (undefined-indicator safety): for a series with fewer bars than the
\* MA window no rule is true and no signal is emitted; more generally the
\* breakout rule is false when the mean of the latest or of the previous bar
\* is undefined, and the near rule is false when the mean of the latest bar
\* is undefined.
C19_UndefinedMaNoSignal ==
    maOut # <<>> =>
        LET series == maIn.series
            n == Len(series)
            out == maOut[1]
        IN /\ BarCount(series) < MA_WINDOW =>
                  (~out.breakout /\ ~out.near /\ ~out.signal)
           /\ IsNaN(rolling_mean(series, n)) => (~out.breakout /\ ~out.near)
           /\ IsNaN(rolling_mean(series, n - 1)) => ~out.breakout

\* The rules of ma20_scan_kr.py were evaluated for a ticker that has a bar
\* on the latest date and fewer bars than the window.
C19_Witness ==
    /\ maOut # <<>>
    /\ maOut[1].evaluated
    /\ BarCount(maIn.series) < MA_WINDOW
    /\ ~IsNaN(At(maIn.series, Len(maIn.series)))

\* C20 (an undefined indicator is never treated as zero): in the close
\* scan, when the last ma20, rsi14, vol_ma20 or percent change is NaN,
\* every filter that is switched on and depends on it rejects the symbol.
C20_UndefinedRejected ==
    closeOut # <<>> =>
        LET raw == closeIn.raw
            args == closeIn.args
            undefined ==
                \/ IsNaN(raw.ma20) /\ args.require_ma20
                \/ IsNaN(raw.rsi14)
                \/ IsNaN(raw.vol_ma20) /\ args.use_volume
                \/ IsNaN(raw.change_pct)
        IN undefined => ~closeOut[1].passes

-----------------------------------------------------------------------------
\* Properties of the MA20 rules

\* C21 (breakout rule): in kis_ma20_close_kr.py and scripts/ma20_scan_kr.py
\* a symbol whose rules were evaluated is a breakout exactly when its
\* previous close is at most the previous mean and its latest close is
\* above the latest mean.
C21_BreakoutRule ==
    (/\ maOut # <<>>
     /\ maIn.prog \in {"kis_ma20_close_kr", "ma20_scan_kr"}
     /\ maOut[1].evaluated) =>
        LET series == maIn.series
            n == Len(series)
        IN maOut[1].breakout =
               (/\ LeMean(At(series, n - 1), rolling_mean(series, n - 1))
                /\ GtMean(At(series, n), rolling_mean(series, n)))

\* C22 (near rule, inclusive): a symbol is near exactly when the distance of
\* its latest close from the latest mean, as a fraction of the mean, is at
\* most near_pct; with near_pct = 0.01 and a mean of 100 a close of 101 is
\* near and a close of 102 is not.
C22_NearInclusive ==
    nearOut # <<>> =>
        nearOut[1] =
            (AbsOf(NearClose(nearIn) - nearIn.mean) * NEAR_DEN
                 <= nearIn.num * nearIn.mean)

\* C23 (breakout before near): a symbol that is in the breakout section of
\* a digest is not in the near section of the same digest.
C23_BreakoutExcludesNear ==
    digestOut # <<>> => ~(digestOut[1].breakout /\ digestOut[1].near)

\* C24 (volume ratio without a base): when the average volume, or the
\* previous volume, that the ratio is taken over is zero or undefined, the
\* rule that reads the ratio rejects the symbol, whatever the multiplier,
\* zero and negative ones included, and no division by zero is raised.
C24_NoBaseRejected ==
    (volOut # <<>> /\ (IsNaN(volIn.base) \/ volIn.base = <<0>>)) =>
        (~volOut[1].accepted /\ ~volOut[1].raised)

\* C25 (RSI with no losses): for closes that never fall from one row to the
\* next, rsi() returns 100 at the last row, not 0, infinity or NaN.
C25_NoLossesIs100 ==
    (/\ rsiOut # <<>>
     /\ Len(rsiIn) >= 2
     /\ \A t \in 2..Len(rsiIn) : rsiIn[t] >= rsiIn[t - 1]) =>
        rsiOut[1][1] = 100 * rsiOut[1][2]

\* C26 (recorded means shown): at the end of a run, every event whose
\* fingerprint the run added to the saved state was rendered in the message
\* the run delivered; none was recorded while cut by the display limit.
C26_RecordedWasShown ==
    showPc = "done" => (showOut.file \ showIn.old) \subseteq showOut.shown

\* C27 (attempts of tg_send): whatever the order of the 429 responses and of
\* the other failures, a part is posted at most max(TG_RETRY_429 + 1, 3)
\* times; once tg_send has raised for a part, no part is attempted any more;
\* and tg_send returns from a text with parts only after the last part was
\* delivered.
C27_AttemptBound ==
    [][/\ tgAttempt' <= (IF TG_RETRY_429 + 1 > 3 THEN TG_RETRY_429 + 1 ELSE 3)
       /\ tgPc = "raised" =>
              (tgPc' = "raised" /\ tgPart' = tgPart /\ tgAttempt' = tgAttempt)
       /\ (tgPc' = "raised" /\ tgEnv.cred) =>
              (tgTrace' # <<>> /\ tgTrace'[Len(tgTrace')].kind # "ok")
       /\ (tgPc' = "done" /\ tgEnv.parts > 0) =>
              (/\ tgPart' = tgEnv.parts
               /\ tgTrace' # <<>>
               /\ tgTrace'[Len(tgTrace')].kind = "ok")]_vars

\* tg_send raised on the first of several parts at its seventh post, after
\* 429 responses and a failure of another kind.
C27_Witness ==
    /\ tgPc = "raised"
    /\ tgPart < tgEnv.parts
    /\ tgAttempt = TG_RETRY_429 + 1
    /\ \E i \in 1..Len(tgTrace) : tgTrace[i].kind = "429"
    /\ \E i \in 1..Len(tgTrace) : tgTrace[i].kind = "network_error"

\* The characters of a text that are not whitespace, in order.
RECURSIVE Inked(_)
Inked(s) ==
    IF s = <<>> THEN <<>>
    ELSE IF s[1] \in Whitespace THEN Inked(Tail(s))
    ELSE <<s[1]>> \o Inked(Tail(s))

\* The chunks one after the other.
RECURSIVE Concat(_)
Concat(chunks) ==
    IF chunks = <<>> THEN <<>> ELSE chunks[1] \o Concat(Tail(chunks))

\* Every chunk has a character and at most max_len of them, and the chunks
\* carry the characters of the text that are not whitespace, each once and
\* in order.
SplitSound(text, max_len, chunks) ==
    /\ \A k \in 1..Len(chunks) :
           chunks[k] # <<>> /\ Len(chunks[k]) <= max_len
    /\ Inked(Concat(chunks)) = Inked(text)

\* C28 as stated (message splitting): for every text that is not empty the
\* chunks are sound, and a text of at most max_len characters gives exactly
\* one chunk.
C28_SplitAnyText ==
    (splitOut # <<>> /\ splitIn.text # <<>>) =>
        /\ SplitSound(splitIn.text, splitIn.max_len, splitOut[1])
        /\ Len(splitIn.text) <= splitIn.max_len => Len(splitOut[1]) = 1

\* C28 as the code has it: the chunks are sound for every text; a text with
\* a character that is not whitespace and with at most max_len characters
\* gives exactly one chunk; a text of whitespace only gives no chunk.
C28_SplitInkedText ==
    splitOut # <<>> =>
        /\ SplitSound(splitIn.text, splitIn.max_len, splitOut[1])
        /\ (Inked(splitIn.text) # <<>> /\ Len(splitIn.text) <= splitIn.max_len)
               => Len(splitOut[1]) = 1
        /\ Inked(splitIn.text) = <<>> => splitOut[1] = <<>>

\* A text longer than max_len was cut in several chunks, one of them off a
\* line longer than max_len, of a text with a space and a line end.
C28_Witness ==
    /\ splitOut # <<>>
    /\ Len(splitIn.text) > splitIn.max_len
    /\ Len(splitOut[1]) >= 3
    /\ \E i \in 1..Len(splitIn.text) : splitIn.text[i] = NL
    /\ \E line \in {splitlines(strip(splitIn.text))[k] :
                       k \in 1..Len(splitlines(strip(splitIn.text)))} :
           Len(line) > splitIn.max_len
    /\ \E i \in 1..Len(splitIn.text) : splitIn.text[i] = SP

\* C29 (last_sent changes only through a delivered email): while a run of
\* main() is under way, last_sent of a bucket changes only in the step in
\* which an email that the bucket was selected for, with its new items, was
\* sent without error, and it becomes the time of that delivery; a bucket
\* held back by its cooldown, a bucket with no new items and a bucket whose
\* email raised keep the last_sent the run loaded.
C29_LastSentByDelivery ==
    [][\A b \in Buckets :
          (/\ rssPc \notin RssTerminal
           /\ rssState'.last_sent[b] # rssState.last_sent[b]) =>
              /\ sendFlags[b]
              /\ b = "SPIKES" \/ BucketItems(newItems, b) # {}
              /\ rssPc' # "raised"
              /\ delivered'[b] # delivered[b]
              /\ rssState'.last_sent[b] = delivered'[b]]_vars

\* A run ended in which the holdings email was delivered and stamped while
\* the bucket US, with new items, was held back by its cooldown and kept the
\* stamp of an earlier run.
C29_Witness ==
    /\ rssPc = "done"
    /\ runs >= 2
    /\ delivered["HOLDINGS"] > 0
    /\ rssState.last_sent["HOLDINGS"] = delivered["HOLDINGS"]
    /\ BucketItems(newItems, "US") # {}
    /\ ~sendFlags["US"]
    /\ rssState.last_sent["US"] > 0
    /\ rssState.last_sent["US"] < rssState.last_sent["HOLDINGS"]

\* Is row r of higher priority than row s: breakout before near before
\* above, then the larger pct.
HigherPriority(r, s) ==
    LET level(x) == IF x.breakout THEN 0 ELSE IF x.near THEN 1
                    ELSE IF x.above THEN 2 ELSE 9
    IN level(r) < level(s) \/ (level(r) = level(s) /\ r.pct > s.pct)

\* C30 (prioritize_and_trim): the rows returned are rows of df, no two of
\* them of the same stock code; the row of a code is one of highest
\* priority among the rows of that code; and each of KOSPI and KOSDAQ has
\* at most TOPN rows, and has TOPN rows or every code of its market.
C30_PrioritizeAndTrim ==
    trimOut # <<>> =>
        LET df == trimIn.df
            out == trimOut[1]
            CodesOf(mkt) == {df[i].code : i \in {j \in 1..Len(df) : df[j].market = mkt}}
            Count(mkt) == Cardinality({k \in 1..Len(out) : out[k].market = mkt})
        IN /\ \A k \in 1..Len(out) : \E i \in 1..Len(df) : df[i] = out[k]
           /\ \A k, l \in 1..Len(out) : out[k].code = out[l].code => k = l
           /\ \A k \in 1..Len(out) : \A i \in 1..Len(df) :
                  df[i].code = out[k].code => ~HigherPriority(df[i], out[k])
           /\ \A mkt \in {"KOSPI", "KOSDAQ"} :
                  /\ Count(mkt) <= trimIn.topn
                  /\ Count(mkt) = trimIn.topn
                         \/ Count(mkt) = Cardinality(CodesOf(mkt))

\* Two rows of one code gave the one of them that is a breakout, although
\* the other came first and has the larger pct.
C30_Witness ==
    /\ trimOut # <<>>
    /\ Len(trimIn.df) = 2
    /\ trimIn.df[1].code = trimIn.df[2].code
    /\ ~trimIn.df[1].breakout /\ trimIn.df[1].pct = 2
    /\ trimIn.df[2].breakout /\ trimIn.df[2].pct = 1
    /\ trimOut[1] = <<trimIn.df[2]>>

====
